---- MODULE Spec2Model ----
(***************************************************************************)
(* Model of the chat server of src/src/stream.py (class ChatServer): the   *)
(* registry client_list, the per-connection handler client_callback with   *)
(* its suspension points, the registry operations and the broadcast.       *)
(*                                                                         *)
(* Text is modelled as a sequence of one-character strings, so that the    *)
(* framing (readuntil, strip, upper, split, the text form of a bytes       *)
(* object) is computed as the code computes it.                            *)
(***************************************************************************)
EXTENDS Integers, Sequences, FiniteSets, TLC

\* ------------------------------------------------------------------------
\* Bounds of the model
\* ------------------------------------------------------------------------
\* number of connections the listener accepts in one run
MaxConns == 3
\* ChatServer(max_clients=...)
max_clients == 2
\* ChatServer(max_message_length=...): the longest kind of listing,
\* CLIENTS_FOR_CHAT_ROOM, passes the length test
max_message_length == 21

\* ------------------------------------------------------------------------
\* Text
\* ------------------------------------------------------------------------
Range(s) == {s[i] : i \in DOMAIN s}

LowerCase == <<"a","b","c","d","e","f","g","h","i","j","k","l","m",
               "n","o","p","q","r","s","t","u","v","w","x","y","z">>
UpperCase == <<"A","B","C","D","E","F","G","H","I","J","K","L","M",
               "N","O","P","Q","R","S","T","U","V","W","X","Y","Z">>
Digits == <<"0","1","2","3","4","5","6","7","8","9">>
Whitespace == {" ", "\n", "\t", "\r"}

\* str.upper(), one character
UpperChar(ch) ==
    IF \E i \in DOMAIN LowerCase : LowerCase[i] = ch
    THEN UpperCase[CHOOSE i \in DOMAIN LowerCase : LowerCase[i] = ch]
    ELSE ch

\* str.upper()
upper(s) == [i \in DOMAIN s |-> UpperChar(s[i])]

\* str.strip(): leading and trailing whitespace removed
strip(s) ==
    LET keep == {i \in DOMAIN s : s[i] \notin Whitespace}
    IN  IF keep = {} THEN <<>>
        ELSE LET lo == CHOOSE i \in keep : \A j \in keep : i <= j
                 hi == CHOOSE i \in keep : \A j \in keep : j <= i
             IN  SubSeq(s, lo, hi)

\* position of the first occurrence of ch in s, 0 when there is none
IndexOf(s, ch) ==
    IF ch \in Range(s)
    THEN CHOOSE i \in DOMAIN s : s[i] = ch /\ \A j \in 1..(i - 1) : s[j] # ch
    ELSE 0

\* str.split(sep=ch): the parts between the occurrences of ch
RECURSIVE split(_, _)
split(s, ch) ==
    LET i == IndexOf(s, ch)
    IN  IF i = 0 THEN <<s>>
        ELSE <<SubSeq(s, 1, i - 1)>> \o split(SubSeq(s, i + 1, Len(s)), ch)

\* str(n) of a natural number
RECURSIVE IntToStr(_)
IntToStr(n) ==
    IF n < 10 THEN <<Digits[n + 1]>>
    ELSE IntToStr(n \div 10) \o <<Digits[(n % 10) + 1]>>

\* the characters of a bytes literal, the quote and the backslash escaped
RECURSIVE BytesEscape(_, _)
BytesEscape(s, q) ==
    IF s = <<>> THEN <<>>
    ELSE (IF Head(s) = q \/ Head(s) = "\\" THEN <<"\\", Head(s)>> ELSE <<Head(s)>>)
         \o BytesEscape(Tail(s), q)

\* str(b) of a bytes object b of printable ASCII: b'...' (b"..." when the
\* data holds a single quote and no double quote)
BytesStr(data) ==
    LET q == IF "'" \in Range(data) /\ "\"" \notin Range(data) THEN "\"" ELSE "'"
    IN  <<"b", q>> \o BytesEscape(data, q) \o <<q>>

\* StreamReader.readuntil(separator): the data up to and including the first
\* separator, and what is left of the stream; ok = FALSE is IncompleteReadError
readuntil(stream, sep) ==
    LET i == IndexOf(stream, sep)
    IN  IF i = 0
        THEN [ok |-> FALSE, data |-> stream, rest |-> <<>>]
        ELSE [ok |-> TRUE, data |-> SubSeq(stream, 1, i),
              rest |-> SubSeq(stream, i + 1, Len(stream))]

\* literals of the source
\* another default for the room
s_main_lobby == <<"l","o","b","b","y">>

s_main == <<"m","a","i","n">>
s_client == <<"c","l","i","e","n","t">>
s_Unknown == <<"U","n","k","n","o","w","n">>
s_status == <<"s","t","a","t","u","s">>
s_writer == <<"w","r","i","t","e","r">>

ALLOWED_SERVER_COMMANDS ==
    { <<"N","E","W">>, <<"L","I","S","T">>, <<"J","O","I","N">>,
      <<"H","E","L","L","O">>, <<"S","E","N","D">>, <<"P","A","U","S","E">>,
      <<"Q","U","I","T">>, <<"E","R","R","O","R">>, <<"F","R","O","M">>,
      <<"M","S","G">> }

STATUS_LIST == {"NEW", "CONNECTED", "ACTIVE", "SUSPENDED", "ERROR", "CLOSING", "CLOSED"}

\* the header split as its decoded text, not as the text form of the bytes
ParseHeaderDecoded(client_chatroom_data) ==
    LET room_client_parts == split(strip(client_chatroom_data), ":")
    IN  IF Len(client_chatroom_data) # 0 /\ Len(room_client_parts) = 2
        THEN [chat_room |-> room_client_parts[1], client_id |-> room_client_parts[2]]
        ELSE [chat_room |-> s_main, client_id |-> s_client]

\* the header of client_callback: room and client id of the second token
ParseHeader(client_chatroom_data) ==
    LET room_client_parts == split(strip(BytesStr(client_chatroom_data)), ":")
    IN  IF Len(client_chatroom_data) # 0 /\ Len(room_client_parts) = 2
        THEN [chat_room |-> room_client_parts[1], client_id |-> room_client_parts[2]]
        ELSE [chat_room |-> s_main, client_id |-> s_client]

\* ------------------------------------------------------------------------
\* Frames: the text written to a connection, as the format string of the
\* source and the values substituted into it
\* ------------------------------------------------------------------------
Frame(fmt, a, b) == [fmt |-> fmt, a |-> a, b |-> b]
NoFrame == Frame("", <<>>, <<>>)

\* a string of the wire as a text
Text(t) == Frame("{a}", t, <<>>)

\* send_to_all_clients: full_message = f"MSG {message_data}"
MsgFrame(message_data) == [message_data EXCEPT !.fmt = "MSG " \o @]

\* send_error_to_writer: full_message = f"ERROR {message_data}"
ErrorFrame(message_data) == [message_data EXCEPT !.fmt = "ERROR " \o @]

\* ------------------------------------------------------------------------
\* The registry client_list: an insertion-ordered dict of rooms, each an
\* insertion-ordered dict of entries.  An entry is a session
\* {"writer": w, "status": s}; session = FALSE is a bare string stored under
\* a key of the room (status then holds the string)
\* ------------------------------------------------------------------------
Entry(id, w, st) == [id |-> id, session |-> TRUE, writer |-> w, status |-> st]
StrEntry(id, v) == [id |-> id, session |-> FALSE, writer |-> 0, status |-> v]

RoomNames(cl) == {cl[i].room : i \in DOMAIN cl}
RoomIndex(cl, r) == CHOOSE i \in DOMAIN cl : cl[i].room = r
Members(cl, r) == cl[RoomIndex(cl, r)].clients
Keys(clients) == {clients[i].id : i \in DOMAIN clients}
KeyIndex(clients, id) == CHOOSE i \in DOMAIN clients : clients[i].id = id
Get(clients, id) == clients[KeyIndex(clients, id)]
\* d[key] = value: an existing key keeps its place, a new one is appended
Put(clients, e) ==
    IF e.id \in Keys(clients)
    THEN [clients EXCEPT ![KeyIndex(clients, e.id)] = e]
    ELSE Append(clients, e)
SetMembers(cl, r, clients) == [cl EXCEPT ![RoomIndex(cl, r)].clients = clients]
AddRoom(cl, r) == Append(cl, [room |-> r, clients |-> <<>>])

\* cw.write(frame)
Write(sv, w, frame) == [sv EXCEPT !.out[w] = Append(@, frame)]

\* ------------------------------------------------------------------------
\* Results of an operation of the handler: the server state it leaves, what
\* it returned, and how the handler goes on: it is done, it is in
\* send_error_and_close (next = "err"), or it is in a broadcast ("bcast")
\* ------------------------------------------------------------------------
Done(sv, outcome, ret) ==
    [sv |-> sv, outcome |-> outcome, ret |-> ret, next |-> "done",
     err_msg |-> NoFrame, err_id |-> <<>>, bc_msg |-> NoFrame, bc_room |-> <<>>]
ErrorClose(sv, outcome, error_message, client_id) ==
    [sv |-> sv, outcome |-> outcome, ret |-> <<>>, next |-> "err",
     err_msg |-> error_message, err_id |-> client_id, bc_msg |-> NoFrame, bc_room |-> <<>>]
Broadcast(sv, outcome, full_message, chat_room) ==
    [sv |-> sv, outcome |-> outcome, ret |-> <<>>, next |-> "bcast",
     err_msg |-> NoFrame, err_id |-> <<>>, bc_msg |-> full_message, bc_room |-> chat_room]

\* ------------------------------------------------------------------------
\* send_error_and_close, between its suspension points
\* ------------------------------------------------------------------------
\* self.client_list[key]["status"] = value: key is looked up among the ROOMS,
\* so the string is stored in the room's dict under the key "status"
SetStatusKey(cl, key, value) ==
    SetMembers(cl, key, Put(Members(cl, key), StrEntry(s_status, value)))

\* the test `client_id in self.client_list`
InClientList(cl, client_id) == client_id \in RoomNames(cl)

\* up to `await cw.drain()`
ErrorBegin(sv, cw, error_message, client_id) ==
    LET sv1 == IF InClientList(sv.client_list, client_id)
               THEN [sv EXCEPT !.client_list = SetStatusKey(@, client_id, "ERROR")]
               ELSE sv
    IN  Write(sv1, cw, error_message)

\* cw.close(), up to `await cw.wait_closed()`
ErrorShut(sv, cw) == [sv EXCEPT !.closed[cw] = TRUE]

\* after the connection is closed
ErrorEnd(sv, client_id) ==
    LET sv1 == IF InClientList(sv.client_list, client_id)
               THEN [sv EXCEPT !.client_list = SetStatusKey(@, client_id, "CLOSED")]
               ELSE sv
    IN  [sv1 EXCEPT !.client_count = @ - 1]

\* the whole call, when nothing else runs in between
send_error_and_close(sv, cw, error_message, client_id) ==
    ErrorEnd(ErrorShut(ErrorBegin(sv, cw, error_message, client_id), cw), client_id)

\* ------------------------------------------------------------------------
\* register_client
\* ------------------------------------------------------------------------
GeneratedId(client_name, n) == client_name \o IntToStr(n)

\* the counter taken as it is, the loop that skips the ids in use left out
NextFreeCounterNoLoop(clients, client_name, n) == n

\* the while loop: the counter is incremented until the generated id is unused
RECURSIVE NextFreeCounter(_, _, _)
NextFreeCounter(clients, client_name, n) ==
    IF GeneratedId(client_name, n) \in Keys(clients)
    THEN NextFreeCounter(clients, client_name, n + 1)
    ELSE n

\* register_client without its test of the room: the room is created by
\* `if chat_room not in self.client_list: self.client_list[chat_room] = {}`
register_client_creating(sv, cw, client_name, chat_room) ==
    LET cl == IF chat_room \in RoomNames(sv.client_list)
              THEN sv.client_list ELSE AddRoom(sv.client_list, chat_room)
        clients == Members(cl, chat_room)
        n == IF client_name = s_client
             THEN NextFreeCounter(clients, client_name, sv.client_id_counter + 1)
             ELSE sv.client_id_counter
        client_id == IF client_name = s_client
                     THEN GeneratedId(client_name, n)
                     ELSE client_name
    IN  Done([sv EXCEPT !.client_id_counter = n,
                        !.client_list = SetMembers(cl, chat_room,
                             Put(clients, Entry(client_id, cw, "NEW")))],
             "registered", client_id)

register_client(sv, cw, client_name, chat_room) ==
    IF chat_room \notin RoomNames(sv.client_list)
    THEN ErrorClose(sv, "room_not_found",
                    Frame("Chat room {a} does not exist. Please add it first.",
                          chat_room, <<>>),
                    client_name)
    ELSE LET clients == Members(sv.client_list, chat_room)
             n == IF client_name = s_client
                  THEN NextFreeCounter(clients, client_name, sv.client_id_counter + 1)
                  ELSE sv.client_id_counter
             client_id == IF client_name = s_client
                          THEN GeneratedId(client_name, n)
                          ELSE client_name
         IN  Done([sv EXCEPT !.client_id_counter = n,
                             !.client_list = SetMembers(@, chat_room,
                                  Put(clients, Entry(client_id, cw, "NEW")))],
                  "registered", client_id)

\* ------------------------------------------------------------------------
\* writer_iterator and send_to_all_clients
\* ------------------------------------------------------------------------
\* the test of the status with "PAUSED" let through
EligibleOrPaused(entry) == entry.status \in {"CONNECTED", "ACTIVE", "PAUSED"}

Eligible(entry) == entry.status \in {"CONNECTED", "ACTIVE"}

\* client_writer.write(...) and `await client_writer.drain()` on a connection
\* that is closed or whose peer is gone: nothing is delivered and drain
\* raises ConnectionResetError
WriteFails(sv, w) == sv.lost[w] \/ sv.closed[w]

\* no handler in the loop: the exception of a write ends the broadcast
CaughtInLoopNever(exc) == FALSE

\* the handlers of the try inside the loop: `except (ConnectionResetError,
\* BrokenPipeError)` and `except Exception`: all but a cancellation
CaughtInLoop(exc) ==
    exc \in {"ConnectionResetError", "BrokenPipeError"} \/ exc # "CancelledError"

\* the failed recipient marked in the registry
AfterFailedWriteMarking(sv, chat_room, pos) ==
    [sv EXCEPT !.client_list = SetMembers(@, chat_room,
         [Members(@, chat_room) EXCEPT ![pos].status = "ERROR"])]

\* what the loop's handlers do to the server state: they log and append the
\* writer to failed_clients, and the clean-up after the loop only logs
AfterFailedWrite(sv, chat_room, pos) == sv

\* The loop of send_to_all_clients from position pos of the room's dict, up
\* to the next `await client_writer.drain()` or to its end.  size is the size
\* of the dict when the iteration began: a dict that changed size makes the
\* iterator raise RuntimeError, an entry that is a bare string makes
\* client_data["writer"] raise TypeError; both end the broadcast.  A write
\* that fails is caught inside the loop: its writer is what the loop appends
\* to failed_clients, and the loop goes on.
RECURSIVE BroadcastScan(_, _, _, _, _)
BroadcastScan(sv, chat_room, full_message, pos, size) ==
    LET clients == Members(sv.client_list, chat_room)
    IN  IF Len(clients) # size
        THEN [sv |-> sv, pos |-> pos, finished |-> TRUE, exc |-> "RuntimeError",
              failed |-> <<>>]
        ELSE IF pos > Len(clients)
        THEN [sv |-> sv, pos |-> pos, finished |-> TRUE, exc |-> "none",
              failed |-> <<>>]
        ELSE IF ~clients[pos].session
        THEN [sv |-> sv, pos |-> pos, finished |-> TRUE, exc |-> "TypeError",
              failed |-> <<>>]
        ELSE IF Eligible(clients[pos])
        THEN IF WriteFails(sv, clients[pos].writer)
             THEN IF CaughtInLoop("ConnectionResetError")
                  THEN [sv |-> AfterFailedWrite(sv, chat_room, pos), pos |-> pos + 1,
                        finished |-> FALSE, exc |-> "none",
                        failed |-> <<clients[pos].writer>>]
                  ELSE [sv |-> sv, pos |-> pos, finished |-> TRUE,
                        exc |-> "ConnectionResetError", failed |-> <<>>]
             ELSE [sv |-> Write(sv, clients[pos].writer, full_message),
                   pos |-> pos + 1, finished |-> FALSE, exc |-> "none",
                   failed |-> <<>>]
        ELSE BroadcastScan(sv, chat_room, full_message, pos + 1, size)

\* the first step of the iteration: `if chat_room not in self.client_list: return`
BroadcastBegin(sv, chat_room, full_message) ==
    IF chat_room \notin RoomNames(sv.client_list)
    THEN [sv |-> sv, pos |-> 1, finished |-> TRUE, exc |-> "none", failed |-> <<>>]
    ELSE BroadcastScan(sv, chat_room, full_message, 1,
                       Len(Members(sv.client_list, chat_room)))

\* send_to_all_clients(self, message_data, chat_room)
send_to_all_clients(sv, outcome, message_data, chat_room) ==
    Broadcast(sv, outcome, MsgFrame(message_data), chat_room)

\* ------------------------------------------------------------------------
\* The SEND case of client_callback
\* ------------------------------------------------------------------------
\* the match without its case "PAUSED"
NextStatusNoPaused(status) ==
    CASE status = "NEW" -> "CONNECTED"
      [] status = "CONNECTED" -> "ACTIVE"
      [] OTHER -> status

NextStatus(status) ==
    CASE status = "NEW" -> "CONNECTED"
      [] status = "CONNECTED" -> "ACTIVE"
      [] status = "PAUSED" -> "ACTIVE"
      [] OTHER -> status

Registered(cl, chat_room, client_id) ==
    /\ chat_room \in RoomNames(cl)
    /\ client_id \in Keys(Members(cl, chat_room))

NotRegisteredFrame ==
    Frame("ERROR: You have not registered or joined this chat room yet, please say HELLO or JOIN first.",
          <<>>, <<>>)

\* the SEND case without its test of the registry
send_command_unchecked(sv, cw, chat_room, client_id, message_data) ==
    send_to_all_clients(sv, "sent", Text(chat_room), message_data)

send_command(sv, cw, chat_room, client_id, message_data) ==
    IF ~Registered(sv.client_list, chat_room, client_id)
    THEN ErrorClose(sv, "not_registered", NotRegisteredFrame, client_id)
    ELSE LET clients == Members(sv.client_list, chat_room)
             e == Get(clients, client_id)
         IN  IF ~e.session
             THEN ErrorClose(sv, "failed",
                             Frame("Command processing failed: {a}", <<>>, <<>>),
                             client_id)
             ELSE send_to_all_clients(
                      [sv EXCEPT !.client_list = SetMembers(@, chat_room,
                           Put(clients, [e EXCEPT !.status = NextStatus(@)]))],
                      "sent", Text(chat_room), message_data)

\* ------------------------------------------------------------------------
\* pause_client
\* ------------------------------------------------------------------------
\* the loop over the rooms from room i on; an entry that is a bare string
\* makes clients[client_id]["status"] = "PAUSED" raise TypeError
\* the loop left at the first room that has the id
RECURSIVE PauseFromFirst(_, _, _, _)
PauseFromFirst(cl, client_id, i, paused_rooms) ==
    IF i > Len(cl)
    THEN [cl |-> cl, paused_rooms |-> paused_rooms, exc |-> "none"]
    ELSE IF client_id \notin Keys(cl[i].clients)
    THEN PauseFromFirst(cl, client_id, i + 1, paused_rooms)
    ELSE IF ~Get(cl[i].clients, client_id).session
    THEN [cl |-> cl, paused_rooms |-> paused_rooms, exc |-> "TypeError"]
    ELSE [cl |-> [cl EXCEPT ![i].clients =
                     Put(@, [Get(@, client_id) EXCEPT !.status = "PAUSED"])],
          paused_rooms |-> Append(paused_rooms, cl[i].room), exc |-> "none"]

RECURSIVE PauseFrom(_, _, _, _)
PauseFrom(cl, client_id, i, paused_rooms) ==
    IF i > Len(cl)
    THEN [cl |-> cl, paused_rooms |-> paused_rooms, exc |-> "none"]
    ELSE IF client_id \notin Keys(cl[i].clients)
    THEN PauseFrom(cl, client_id, i + 1, paused_rooms)
    ELSE IF ~Get(cl[i].clients, client_id).session
    THEN [cl |-> cl, paused_rooms |-> paused_rooms, exc |-> "TypeError"]
    ELSE PauseFrom([cl EXCEPT ![i].clients =
                        Put(@, [Get(@, client_id) EXCEPT !.status = "PAUSED"])],
                   client_id, i + 1, Append(paused_rooms, cl[i].room))

\* the loop without its test `if client_id in clients`: the first room that
\* lacks the id raises KeyError
RECURSIVE PauseFromUnguarded(_, _, _, _)
PauseFromUnguarded(cl, client_id, i, paused_rooms) ==
    IF i > Len(cl)
    THEN [cl |-> cl, paused_rooms |-> paused_rooms, exc |-> "none"]
    ELSE IF client_id \notin Keys(cl[i].clients)
    THEN [cl |-> cl, paused_rooms |-> paused_rooms, exc |-> "KeyError"]
    ELSE IF ~Get(cl[i].clients, client_id).session
    THEN [cl |-> cl, paused_rooms |-> paused_rooms, exc |-> "TypeError"]
    ELSE PauseFromUnguarded([cl EXCEPT ![i].clients =
                                Put(@, [Get(@, client_id) EXCEPT !.status = "PAUSED"])],
                            client_id, i + 1, Append(paused_rooms, cl[i].room))

pause_client_unguarded(cl, client_id) == PauseFromUnguarded(cl, client_id, 1, <<>>)

pause_client(cl, client_id) == PauseFrom(cl, client_id, 1, <<>>)

\* the PAUSE case of client_callback
pause_command(sv, cw, chat_room, client_id, message_data) ==
    LET p == pause_client(sv.client_list, client_id)
        sv1 == [sv EXCEPT !.client_list = p.cl]
    IN  IF p.exc = "none"
        THEN Done(sv1, IF p.paused_rooms = <<>> THEN "pause_not_found" ELSE "paused", <<>>)
        ELSE ErrorClose(sv1, "pause_failed", Frame("Pause failed: {a}", <<>>, <<>>),
                        client_id)

\* ------------------------------------------------------------------------
\* close_client
\* ------------------------------------------------------------------------
\* client_id is looked up among the ROOMS.  For a room of that name the
\* string "CLOSING" is stored under the room's key "status"; the lookup of
\* the room's key "writer" raises KeyError unless the room has such a member,
\* and then the write to what is found there fails and "CLOSED" is stored.
\* close_client that deletes what it finds under client_id:
\* `del self.client_list[client_id]`
close_client_deleting(sv, client_id) ==
    IF ~InClientList(sv.client_list, client_id)
    THEN sv
    ELSE [sv EXCEPT !.client_list = SelectSeq(@, LAMBDA e : e.room # client_id),
                    !.client_count = @ - 1]

close_client(sv, client_id) ==
    IF ~InClientList(sv.client_list, client_id)
    THEN sv
    ELSE LET cl1 == SetStatusKey(sv.client_list, client_id, "CLOSING")
             cl2 == IF s_writer \in Keys(Members(cl1, client_id))
                    THEN SetStatusKey(cl1, client_id, "CLOSED")
                    ELSE cl1
         IN  [sv EXCEPT !.client_list = cl2, !.client_count = @ - 1]

\* the QUIT case of client_callback
quit_command(sv, cw, chat_room, client_id, message_data) ==
    Done(close_client(sv, client_id), "quit", <<>>)

\* ------------------------------------------------------------------------
\* add_chatroom
\* ------------------------------------------------------------------------
\* send_error_to_client: the writer is the one STORED for (chat_room,
\* client_id); a room or a client that is missing raises KeyError
send_error_to_client(sv, message_data, chat_room, client_id) ==
    IF chat_room \notin RoomNames(sv.client_list)
    THEN [sv |-> sv, exc |-> "KeyError", key |-> chat_room]
    ELSE IF client_id \notin Keys(Members(sv.client_list, chat_room))
    THEN [sv |-> sv, exc |-> "KeyError", key |-> client_id]
    ELSE IF ~Get(Members(sv.client_list, chat_room), client_id).session
    THEN [sv |-> sv, exc |-> "TypeError", key |-> <<>>]
    ELSE [sv |-> Write(sv, Get(Members(sv.client_list, chat_room), client_id).writer,
                       Frame("ERROR {a}:{b} " \o message_data, chat_room, client_id)),
          exc |-> "none", key |-> <<>>]

ProtectedRoomMessage == "ERROR: You cannot create the main chat room"
RoomExistsMessage == "ERROR: Chat Room {a} already exists."
CreatedFrame(chat_room, client_id) ==
    Frame("MSG Chatroom {a} was successfully created by {b}.", chat_room, client_id)

\* the creator stored as if it had already sent
CreatorSessionConnected(client_id, client_writer) ==
    Entry(client_id, client_writer, "CONNECTED")

\* the session a successful add_chatroom stores for the creator
CreatorSession(client_id, client_writer) == Entry(client_id, client_writer, "NEW")

\* add_chatroom without its test `if chat_room in self.client_list`
add_chatroom_unchecked(sv, chat_room, client_id, client_writer) ==
    IF chat_room = s_main
    THEN LET r == send_error_to_client(sv, ProtectedRoomMessage, chat_room, client_id)
         IN  [sv |-> r.sv, status |-> "protected_room", exc |-> r.exc, key |-> r.key]
    ELSE LET cl1 == IF chat_room \in RoomNames(sv.client_list)
                    THEN SetMembers(sv.client_list, chat_room, <<>>)
                    ELSE AddRoom(sv.client_list, chat_room)
             cl2 == SetMembers(cl1, chat_room,
                               Put(Members(cl1, chat_room),
                                   CreatorSession(client_id, client_writer)))
         IN  [sv |-> Write([sv EXCEPT !.client_list = cl2], client_writer,
                           CreatedFrame(chat_room, client_id)),
              status |-> "created", exc |-> "none", key |-> <<>>]

add_chatroom(sv, chat_room, client_id, client_writer) ==
    IF chat_room = s_main
    THEN LET r == send_error_to_client(sv, ProtectedRoomMessage, chat_room, client_id)
         IN  [sv |-> r.sv, status |-> "protected_room", exc |-> r.exc, key |-> r.key]
    ELSE IF chat_room \in RoomNames(sv.client_list)
    THEN LET r == send_error_to_client(sv, RoomExistsMessage, chat_room, client_id)
         IN  [sv |-> r.sv, status |-> "room_exists", exc |-> r.exc, key |-> r.key]
    ELSE LET cl1 == AddRoom(sv.client_list, chat_room)
             cl2 == SetMembers(cl1, chat_room,
                               Put(Members(cl1, chat_room),
                                   CreatorSession(client_id, client_writer)))
         IN  [sv |-> Write([sv EXCEPT !.client_list = cl2], client_writer,
                           CreatedFrame(chat_room, client_id)),
              status |-> "created", exc |-> "none", key |-> <<>>]

\* the NEW case of client_callback
new_command(sv, cw, chat_room, client_id, message_data) ==
    LET r == add_chatroom(sv, chat_room, client_id, cw)
    IN  IF r.exc = "none"
        THEN Done(r.sv, r.status, <<>>)
        ELSE ErrorClose(r.sv, "creation_failed",
                        Frame("Room creation failed: {a}", r.key, <<>>), client_id)

\* ------------------------------------------------------------------------
\* join_chatroom
\* ------------------------------------------------------------------------
JoinFrame(client_id, chat_room) ==
    Frame("Client {a} has joined Chat room {b}", client_id, chat_room)

\* join_chatroom that stores a session only for an id the room does not have
join_chatroom_keeping(sv, chat_room, client_id, client_writer) ==
    IF chat_room \notin RoomNames(sv.client_list)
    THEN Done(Write(sv, client_writer,
                    ErrorFrame(Frame("Chat room {a} can not be joined because it does not exist.",
                                     chat_room, <<>>))),
              "join_room_not_found", <<>>)
    ELSE send_to_all_clients(
             [sv EXCEPT !.client_list = SetMembers(@, chat_room,
                  IF client_id \in Keys(Members(@, chat_room))
                  THEN Members(@, chat_room)
                  ELSE Put(Members(@, chat_room), Entry(client_id, client_writer, "NEW")))],
             "joined", JoinFrame(client_id, chat_room), chat_room)

join_chatroom(sv, chat_room, client_id, client_writer) ==
    IF chat_room \notin RoomNames(sv.client_list)
    THEN Done(Write(sv, client_writer,
                    ErrorFrame(Frame("Chat room {a} can not be joined because it does not exist.",
                                     chat_room, <<>>))),
              "join_room_not_found", <<>>)
    ELSE send_to_all_clients(
             [sv EXCEPT !.client_list = SetMembers(@, chat_room,
                  Put(Members(@, chat_room), Entry(client_id, client_writer, "NEW")))],
             "joined", JoinFrame(client_id, chat_room), chat_room)

\* the JOIN case of client_callback
join_command(sv, cw, chat_room, client_id, message_data) ==
    join_chatroom(sv, chat_room, client_id, cw)

\* ------------------------------------------------------------------------
\* list_chatrooms, as far as the LIST case of client_callback shows it: the
\* text is returned to the handler and written nowhere; an exception makes
\* the handler write "ERROR List failed: ..." to the connection
\* ------------------------------------------------------------------------
s_ALL == <<"A","L","L">>
s_CLIENTS_FOR_CHAT_ROOM ==
    <<"C","L","I","E","N","T","S","_","F","O","R","_","C","H","A","T","_","R","O","O","M">>

HasStrEntry(cl) ==
    \E i \in DOMAIN cl : \E j \in DOMAIN cl[i].clients : ~cl[i].clients[j].session

\* the exception list_chatrooms(list_type, client_id) raises, chat_room = None
list_chatrooms_exc(cl, list_type) ==
    IF list_type = s_CLIENTS_FOR_CHAT_ROOM THEN "KeyError"
    ELSE IF list_type = s_ALL /\ HasStrEntry(cl) THEN "TypeError"
    ELSE "none"

\* the other kinds of listing
s_CHAT_ROOMS == <<"C","H","A","T","_","R","O","O","M","S">>
s_CHAT_ROOM_AND_CLIENTS ==
    <<"C","H","A","T","_","R","O","O","M","_","A","N","D","_","C","L","I","E","N","T","S">>
s_CLIENT_CHAT_ROOMS ==
    <<"C","L","I","E","N","T","_","C","H","A","T","_","R","O","O","M","S">>

\* an argument left at its default None
None == <<"None">>

\* What a listing returns or raises.  A text is its fixed part (head) and,
\* in the order they are appended, the names substituted into it (lines); a
\* dict is taken the same way, head being its "type".  error is the text of
\* a value returned in place of a listing.
ListResult(exc, error, head, lines) ==
    [exc |-> exc, error |-> error, head |-> head, lines |-> lines]

\* the loop over the rooms from room i on: one line for the room and, as
\* detail says, one for each key of its dict, with the status stored there
RECURSIVE RoomLines(_, _, _)
RoomLines(cl, i, detail) ==
    IF i > Len(cl) THEN <<>>
    ELSE <<[kind |-> "room", name |-> cl[i].room, status |-> ""]>>
         \o (IF detail = "none" THEN <<>>
             ELSE [j \in DOMAIN cl[i].clients |->
                      [kind |-> "client", name |-> cl[i].clients[j].id,
                       status |-> IF detail = "status"
                                  THEN cl[i].clients[j].status ELSE ""]])
         \o RoomLines(cl, i + 1, detail)

\* the rooms whose dict has the key client_id
RoomsWith(cl, client_id) == SelectSeq(cl, LAMBDA e : client_id \in Keys(e.clients))

\* list_chatrooms(list_type, client_id, chat_room).  client_data['status']
\* of an entry that is a bare string raises TypeError, and
\* self.client_list[chat_room] of a room that is missing (or None) KeyError;
\* a list_type that matches no case returns list_msg as it was initialised
list_chatrooms(cl, list_type, client_id, chat_room) ==
    CASE list_type = s_ALL ->
            IF HasStrEntry(cl) THEN ListResult("TypeError", "", "", <<>>)
            ELSE ListResult("none", "", "Chat Room List With Clients and Status:\n",
                            RoomLines(cl, 1, "status"))
      [] list_type = s_CHAT_ROOMS ->
            ListResult("none", "", "Chat Room List:\n", RoomLines(cl, 1, "none"))
      [] list_type = s_CHAT_ROOM_AND_CLIENTS ->
            ListResult("none", "", "Chat Room List With Clients:\n",
                       RoomLines(cl, 1, "ids"))
      [] list_type = s_CLIENT_CHAT_ROOMS ->
            IF client_id = None
            THEN ListResult("none", "Client does not exist.", "", <<>>)
            ELSE ListResult("none", "", "Chat Room ListFor Client {client_id}:\n",
                            RoomLines(RoomsWith(cl, client_id), 1, "none"))
      [] list_type = s_CLIENTS_FOR_CHAT_ROOM ->
            IF chat_room \notin RoomNames(cl)
            THEN ListResult("KeyError", "", "", <<>>)
            ELSE ListResult("none", "",
                            "Chat Room List of Clients belonging to {chat_room}",
                            [j \in DOMAIN Members(cl, chat_room) |->
                                [kind |-> "client", name |-> Members(cl, chat_room)[j].id,
                                 status |-> ""]])
      [] OTHER -> ListResult("none", "", "Chat Room List", <<>>)

\* list_chatrooms_as_dict(list_type, client_id, chat_room)
list_chatrooms_as_dict(cl, list_type, client_id, chat_room) ==
    CASE list_type = s_ALL ->
            IF HasStrEntry(cl) THEN ListResult("TypeError", "", "", <<>>)
            ELSE ListResult("none", "", "all", RoomLines(cl, 1, "status"))
      [] list_type = s_CHAT_ROOMS ->
            ListResult("none", "", "chat rooms", RoomLines(cl, 1, "none"))
      [] list_type = s_CHAT_ROOM_AND_CLIENTS ->
            ListResult("none", "", "chat room and clients", RoomLines(cl, 1, "ids"))
      [] list_type = s_CLIENT_CHAT_ROOMS ->
            IF client_id = None
            THEN ListResult("none", "Client ID required for CLIENT_CHAT_ROOMS listing",
                            "", <<>>)
            ELSE ListResult("none", "", "client chat rooms",
                            RoomLines(RoomsWith(cl, client_id), 1, "none"))
      [] list_type = s_CLIENTS_FOR_CHAT_ROOM ->
            IF chat_room \in RoomNames(cl)
            THEN ListResult("none", "", "clients for chat room",
                            [j \in DOMAIN Members(cl, chat_room) |->
                                [kind |-> "client", name |-> Members(cl, chat_room)[j].id,
                                 status |-> ""]])
            ELSE ListResult("none", "", "clients for chat room", <<>>)
      [] OTHER -> ListResult("none", "Invalid list type", "", <<>>)

\* the LIST case: list_chatrooms(list_type=message_data, client_id=client_id)
list_command(sv, cw, chat_room, client_id, message_data) ==
    IF list_chatrooms_exc(sv.client_list, message_data) = "none"
    THEN Done(sv, "listed", list_chatrooms(sv.client_list, message_data, client_id, None))
    ELSE Done(Write(sv, cw, ErrorFrame(Frame("List failed: {a}", <<>>, <<>>))),
              "list_failed", list_chatrooms(sv.client_list, message_data, client_id, None))

\* the ERROR case of client_callback: the client's text is echoed back
error_command(sv, cw, chat_room, client_id, message_data) ==
    ErrorClose(sv, "client_error", Text(message_data), client_id)

\* ------------------------------------------------------------------------
\* client_callback
\* ------------------------------------------------------------------------
w_NEW == <<"N","E","W">>
w_LIST == <<"L","I","S","T">>
w_JOIN == <<"J","O","I","N">>
w_HELLO == <<"H","E","L","L","O">>
w_SEND == <<"S","E","N","D">>
w_PAUSE == <<"P","A","U","S","E">>
w_QUIT == <<"Q","U","I","T">>
w_ERROR == <<"E","R","R","O","R">>
w_FROM == <<"F","R","O","M">>
w_MSG == <<"M","S","G">>

\* message_name = str(message_identifier.decode()).strip().upper()
MessageName(message_identifier) == upper(strip(message_identifier))

\* every verb let through
ValidCommandAny(message_name) == TRUE

\* `message_name not in ChatServer.ALLOWED_SERVER_COMMANDS`, negated
ValidCommand(message_name) == message_name \in ALLOWED_SERVER_COMMANDS

UnknownCommandFrame(message_name) ==
    Frame("ERROR: The {a} command is not a valid command, the client connection will be closed",
          message_name, <<>>)
CapacityFrame ==
    Frame("ERROR: The maximum number of clients has been reached. No more clients are allowed, the client connection will be closed",
          <<>>, <<>>)
TooLongFrame ==
    Frame("Message exceeds maximum length of {max_message_length} characters", <<>>, <<>>)
InvalidFormatFrame == Frame("Invalid format: {e}", <<>>, <<>>)

\* `match message_name:` FROM and MSG have no case
Dispatch(sv, cw, message_name, chat_room, client_id, message_data) ==
    CASE message_name = w_HELLO -> register_client(sv, cw, client_id, chat_room)
      [] message_name = w_SEND -> send_command(sv, cw, chat_room, client_id, message_data)
      [] message_name = w_PAUSE -> pause_command(sv, cw, chat_room, client_id, message_data)
      [] message_name = w_ERROR -> error_command(sv, cw, chat_room, client_id, message_data)
      [] message_name = w_NEW -> new_command(sv, cw, chat_room, client_id, message_data)
      [] message_name = w_JOIN -> join_command(sv, cw, chat_room, client_id, message_data)
      [] message_name = w_LIST -> list_command(sv, cw, chat_room, client_id, message_data)
      [] message_name = w_QUIT -> quit_command(sv, cw, chat_room, client_id, message_data)
      [] OTHER -> Done(sv, "ignored", <<>>)

\* the length test made with >= in place of >
TooLongOrEqual(message_data) == Len(message_data) >= max_message_length

\* the length test of the body
TooLong(message_data) == Len(message_data) > max_message_length

\* ------------------------------------------------------------------------
\* What the clients send
\* ------------------------------------------------------------------------
Cmd(verb, header, body) == verb \o <<" ">> \o header \o <<" ">> \o body
Hdr(room, client) == room \o <<":">> \o client

n_r == <<"r">>
n_a == <<"a">>
n_c == <<"c">>

Streams ==
    { Cmd(w_NEW, Hdr(n_r, n_a), <<>>),
      Cmd(w_NEW, Hdr(n_r, n_c), <<>>),
      Cmd(w_NEW, n_r, <<>>),
      Cmd(w_HELLO, Hdr(n_r, n_c), <<>>),
      Cmd(w_HELLO, Hdr(s_main, s_client), <<>>),
      Cmd(w_SEND, Hdr(n_r, n_a), <<"b", "'", "r">>),
      Cmd(w_SEND, Hdr(n_r, n_a), <<"h", "i">>),
      Cmd(<<"F","O","O">>, Hdr(n_r, n_a), <<"x">>) }

\* ------------------------------------------------------------------------
\* State
\* ------------------------------------------------------------------------
Conns == 1..MaxConns

VARIABLES
    client_list,        \* self.client_list
    client_id_counter,  \* self.client_id_counter
    client_count,       \* self.client_count
    out,                \* the frames written to each connection's writer
    closed,             \* the connections the server has closed
    lost,               \* the connections whose peer is gone (connection_lost)
    conn,               \* the handler of each connection: its place and locals
    listener,           \* the arguments of ChatServer(...) and how far it got
    api                 \* the call of the HTTP facade in progress, or the last one

vars == <<client_list, client_id_counter, client_count, out, closed, lost, conn,
          listener, api>>

Server ==
    [client_list |-> client_list, client_id_counter |-> client_id_counter,
     client_count |-> client_count, out |-> out, closed |-> closed, lost |-> lost]

Commit(sv) ==
    /\ client_list' = sv.client_list
    /\ client_id_counter' = sv.client_id_counter
    /\ client_count' = sv.client_count
    /\ out' = sv.out
    /\ closed' = sv.closed
    /\ lost' = sv.lost

IdleConn ==
    [pc |-> "idle", stream |-> <<>>, message_name |-> <<>>, chat_room |-> <<>>,
     client_id |-> <<>>, message_data |-> <<>>, outcome |-> "", ret |-> <<>>,
     err_id |-> <<>>, after |-> 0,
     bc_room |-> <<>>, bc_msg |-> NoFrame, bc_pos |-> 0, bc_size |-> 0,
     bc_exc |-> "none", failed_clients |-> <<>>]

\* no call of the facade made yet
ApiIdle ==
    [calls |-> 0, pc |-> "idle", op |-> "", chat_room |-> <<>>, client_id |-> <<>>,
     message_data |-> <<>>, outcome |-> "", ret |-> <<>>,
     bc_msg |-> NoFrame, bc_pos |-> 0, bc_size |-> 0,
     bc_exc |-> "none", failed_clients |-> <<>>]

\* the fields ChatServer.__init__ sets, client_count apart
Fresh ==
    /\ client_list = <<>>
    /\ client_id_counter = 1
    /\ out = [c \in Conns |-> <<>>]
    /\ closed = [c \in Conns |-> FALSE]
    /\ lost = [c \in Conns |-> FALSE]
    /\ conn = [c \in Conns |-> IdleConn]
    /\ api = ApiIdle

\* ChatServer() with its default arguments, once run_server has returned
Init ==
    /\ Fresh
    /\ client_count = 0
    /\ listener = [phase |-> "serving", use_ssl |-> "None", cert_path |-> "None"]

\* the handler that goes back to read the next verb of its connection
ReturnedToRead == "verb"

\* where the handler is once its command is dealt with: client_callback has
\* no loop, every path ends in a return or at the end of the function
Returned == "done"

\* How the handler of connection c goes on after an operation with result r;
\* cn is its record, after the number of times the caller decrements
\* client_count once send_error_and_close has returned
Proceed(c, cn, r, after) ==
    CASE r.next = "done" ->
            /\ Commit(r.sv)
            /\ conn' = [conn EXCEPT ![c] =
                   [cn EXCEPT !.pc = Returned, !.outcome = r.outcome, !.ret = r.ret]]
      [] r.next = "err" ->
            /\ Commit(ErrorBegin(r.sv, c, r.err_msg, r.err_id))
            /\ conn' = [conn EXCEPT ![c] =
                   [cn EXCEPT !.pc = "err_drain", !.outcome = r.outcome,
                              !.err_id = r.err_id, !.after = after]]
      [] r.next = "bcast" ->
            LET b == BroadcastBegin(r.sv, r.bc_room, r.bc_msg)
            IN  /\ Commit(b.sv)
                /\ conn' = [conn EXCEPT ![c] =
                       [cn EXCEPT !.pc = IF b.finished THEN Returned ELSE "bcast",
                                  !.outcome = r.outcome,
                                  !.bc_room = r.bc_room, !.bc_msg = r.bc_msg,
                                  !.bc_pos = b.pos, !.bc_exc = b.exc,
                                  !.failed_clients = b.failed,
                                  !.bc_size = IF r.bc_room \in RoomNames(r.sv.client_list)
                                              THEN Len(Members(r.sv.client_list, r.bc_room))
                                              ELSE 0]]

\* a connection is accepted: client_callback starts, up to the first read
Accept(c) ==
    /\ listener.phase = "serving"
    /\ conn[c].pc = "idle"
    /\ \A d \in 1..(c - 1) : conn[d].pc # "idle"
    /\ conn' = [conn EXCEPT ![c].pc = "verb"]
    /\ client_count' = client_count + 1
    /\ UNCHANGED <<client_list, client_id_counter, out, closed, lost, listener, api>>

\* the first read returns: the verb of the stream the client sends is
\* validated, then the capacity test is made
ReadVerb(c, stream) ==
    /\ conn[c].pc = "verb"
    /\ UNCHANGED <<listener, api>>
    /\ LET rd == readuntil(stream, " ")
           message_name == MessageName(rd.data)
           cn == [conn[c] EXCEPT !.stream = rd.data, !.message_name = message_name]
       IN  IF ~rd.ok
           THEN /\ client_count' = client_count - 1
                /\ conn' = [conn EXCEPT ![c].pc = Returned, ![c].outcome = "incomplete"]
                /\ UNCHANGED <<client_list, client_id_counter, out, closed, lost>>
           ELSE IF ~ValidCommand(message_name)
           THEN Proceed(c, cn, ErrorClose(Server, "unknown_command",
                                          UnknownCommandFrame(message_name), s_Unknown), 1)
           ELSE IF client_count > max_clients
           THEN Proceed(c, cn, ErrorClose(Server, "capacity", CapacityFrame, s_Unknown), 1)
           ELSE /\ conn' = [conn EXCEPT ![c] = [cn EXCEPT !.pc = "header"]]
                /\ UNCHANGED <<client_list, client_id_counter, client_count, out, closed, lost>>

\* the header and the body have been read (the rest of a stream that began
\* with the verb read before): parsing, the length test, and the command up
\* to its first suspension point
ReadCommand(c, stream) ==
    /\ conn[c].pc = "header"
    /\ UNCHANGED <<listener, api>>
    /\ readuntil(stream, " ").ok
    /\ readuntil(stream, " ").data = conn[c].stream
    /\ LET rd == readuntil(readuntil(stream, " ").rest, " ")
           h == ParseHeader(rd.data)
           message_data == rd.rest
           cn == [conn[c] EXCEPT !.stream = stream, !.chat_room = h.chat_room,
                                 !.client_id = h.client_id,
                                 !.message_data = message_data]
       IN  IF ~rd.ok
           THEN Proceed(c, [conn[c] EXCEPT !.stream = stream],
                        ErrorClose(Server, "invalid_format", InvalidFormatFrame, s_Unknown), 1)
           ELSE IF TooLong(message_data)
           THEN Proceed(c, cn, ErrorClose(Server, "too_long", TooLongFrame, h.client_id), 1)
           ELSE Proceed(c, cn, Dispatch(Server, c, conn[c].message_name, h.chat_room,
                                        h.client_id, message_data), 0)

\* send_error_and_close after its drain: the connection is closed and, once
\* wait_closed is over, the bookkeeping is done; the caller's own decrement
\* of client_count follows.  (Closing touches nothing another handler reads,
\* so the two suspension points are taken as one.)
ErrorClosed(c) ==
    /\ conn[c].pc = "err_drain"
    /\ UNCHANGED <<listener, api>>
    /\ Commit([ErrorEnd(ErrorShut(Server, c), conn[c].err_id)
                  EXCEPT !.client_count = @ - conn[c].after])
    /\ conn' = [conn EXCEPT ![c].pc = Returned]

\* a broadcast goes on after the drain of its last write
BroadcastStep(c) ==
    /\ conn[c].pc = "bcast"
    /\ UNCHANGED <<listener, api>>
    /\ LET b == BroadcastScan(Server, conn[c].bc_room, conn[c].bc_msg,
                              conn[c].bc_pos, conn[c].bc_size)
       IN  /\ Commit(b.sv)
           /\ conn' = [conn EXCEPT ![c].pc = IF b.finished THEN Returned ELSE "bcast",
                                   ![c].bc_pos = b.pos, ![c].bc_exc = b.exc,
                                   ![c].failed_clients = @ \o b.failed]

Next ==
    \/ \E c \in Conns : Accept(c)
    \/ \E c \in Conns, stream \in Streams : ReadVerb(c, stream)
    \/ \E c \in Conns, stream \in Streams : ReadCommand(c, stream)
    \/ \E c \in Conns : ErrorClosed(c)
    \/ \E c \in Conns : BroadcastStep(c)

Spec == Init /\ [][Next]_vars

\* The same server later in its life: a connection that sent an unknown verb
\* has been accepted (client_count + 1), answered and closed (client_count - 1
\* in send_error_and_close, and - 1 again in client_callback), and is gone
InitAfterRejection ==
    /\ Fresh
    /\ client_count = 0 + 1 - 1 - 1
    /\ listener = [phase |-> "serving", use_ssl |-> "None", cert_path |-> "None"]

SpecAfterRejection == InitAfterRejection /\ [][Next]_vars

\* ------------------------------------------------------------------------
\* Clients that send bodies of the maximum length and of one character more.
\* None of these commands starts a broadcast: the one that is dispatched is
\* a NEW.
\* ------------------------------------------------------------------------
Filler(n) == [i \in 1..n |-> "x"]

LengthStreams ==
    { Cmd(w_NEW, Hdr(n_r, n_a), Filler(max_message_length)) }
    \cup { Cmd(verb, Hdr(n_r, n_a), Filler(max_message_length + 1)) :
               verb \in {w_NEW, w_HELLO, w_SEND, w_JOIN} }

NextLength ==
    \/ \E c \in Conns : Accept(c)
    \/ \E c \in Conns, stream \in LengthStreams : ReadVerb(c, stream)
    \/ \E c \in Conns, stream \in LengthStreams : ReadCommand(c, stream)
    \/ \E c \in Conns : ErrorClosed(c)

SpecLength == Init /\ [][NextLength]_vars

\* ------------------------------------------------------------------------
\* Clients that create, register in and join one room
\* ------------------------------------------------------------------------
RoomStreams ==
    { Cmd(w_NEW, Hdr(n_r, n_a), <<>>),
      Cmd(w_HELLO, Hdr(n_r, n_c), <<>>),
      Cmd(w_JOIN, Hdr(n_r, n_c), <<>>),
      Cmd(w_SEND, Hdr(n_r, n_a), <<"b", "'", "r">>) }

NextRooms ==
    \/ \E c \in Conns : Accept(c)
    \/ \E c \in Conns, stream \in RoomStreams : ReadVerb(c, stream)
    \/ \E c \in Conns, stream \in RoomStreams : ReadCommand(c, stream)
    \/ \E c \in Conns : ErrorClosed(c)
    \/ \E c \in Conns : BroadcastStep(c)

SpecRooms == Init /\ [][NextRooms]_vars

\* ------------------------------------------------------------------------
\* The life of the server from the call ChatServer(use_ssl=..., cert_path=...)
\* on: __init__ raises or returns, run_server binds the listener or fails
\* (OSError at the bind, an unreadable certificate), connections are accepted
\* once it serves
\* ------------------------------------------------------------------------
\* __init__ without its test of the arguments
init_raises_never(use_ssl, cert_path) == FALSE

\* `if use_ssl is not None and cert_path is None: raise RuntimeError(...)`
init_raises(use_ssl, cert_path) == use_ssl # "None" /\ cert_path = "None"

InitArguments ==
    /\ Fresh
    /\ client_count = 0
    /\ listener \in [phase : {"arguments"}, use_ssl : {"None", "True", "False"},
                      cert_path : {"None", "cert.pem"}]

Construct ==
    /\ listener.phase = "arguments"
    /\ listener' = [listener EXCEPT !.phase =
                       IF init_raises(listener.use_ssl, listener.cert_path)
                       THEN "RuntimeError" ELSE "constructed"]
    /\ UNCHANGED <<client_list, client_id_counter, client_count, out, closed, lost, conn, api>>

\* run_server: aio.start_server returned
RunServer ==
    /\ listener.phase = "constructed"
    /\ listener' = [listener EXCEPT !.phase = "serving"]
    /\ UNCHANGED <<client_list, client_id_counter, client_count, out, closed, lost, conn, api>>

\* run_server: load_cert_chain or aio.start_server raised
RunServerFails ==
    /\ listener.phase = "constructed"
    /\ listener' = [listener EXCEPT !.phase = "failed"]
    /\ UNCHANGED <<client_list, client_id_counter, client_count, out, closed, lost, conn, api>>

\* what the clients of this server send: no command that starts a broadcast
LifecycleStreams ==
    { Cmd(w_NEW, Hdr(n_r, n_a), <<>>),
      Cmd(<<"F","O","O">>, Hdr(n_r, n_a), <<"x">>) }

NextLifecycle ==
    \/ Construct
    \/ RunServer
    \/ RunServerFails
    \/ \E c \in Conns : Accept(c)
    \/ \E c \in Conns, stream \in LifecycleStreams : ReadVerb(c, stream)
    \/ \E c \in Conns, stream \in LifecycleStreams : ReadCommand(c, stream)
    \/ \E c \in Conns : ErrorClosed(c)

SpecLifecycle == InitArguments /\ [][NextLifecycle]_vars

\* ------------------------------------------------------------------------
\* The HTTP facade of src/src/api.py beside the listener: its routes call
\* pause_client, close_client and send_to_all_clients on the same server, in
\* the same event loop, so a call runs between two suspension points of the
\* handlers.  The calls are made one after the other, at most MaxCalls.
\* ------------------------------------------------------------------------
MaxCalls == 1

\* POST /messages/send
send_message_unchecked(sv, chat_room, message_data) ==
    send_to_all_clients(sv, "sent", Text(message_data), chat_room)

send_message(sv, chat_room, message_data) ==
    IF chat_room \notin RoomNames(sv.client_list)
    THEN Done(sv, "room_not_found", <<>>)
    ELSE send_to_all_clients(sv, "sent", Text(message_data), chat_room)

\* the names as the header parser decodes them
room_r == ParseHeader(Hdr(n_r, n_a) \o <<" ">>).chat_room
id_a == ParseHeader(Hdr(n_r, n_a) \o <<" ">>).client_id
id_c == ParseHeader(Hdr(n_r, n_c) \o <<" ">>).client_id

ApiStreams ==
    { Cmd(w_NEW, Hdr(n_r, n_a), <<>>),
      Cmd(w_SEND, Hdr(n_r, n_a), room_r) }
ApiIds == {id_a, room_r}
ApiRooms == {room_r, <<"z">>}
ApiTexts == {<<"h", "i">>}

ApiCall(op, chat_room, client_id, message_data) ==
    [ApiIdle EXCEPT !.calls = api.calls + 1, !.op = op, !.chat_room = chat_room,
                    !.client_id = client_id, !.message_data = message_data]

ApiReady == api.pc # "bcast" /\ api.calls < MaxCalls

\* POST /clients/pause
ApiPauseClient(client_id) ==
    /\ ApiReady
    /\ LET p == pause_client(client_list, client_id)
       IN  /\ client_list' = p.cl
           /\ api' = [ApiCall("pause", <<>>, client_id, <<>>) EXCEPT
                        !.pc = "done", !.ret = p.paused_rooms,
                        !.outcome = IF p.exc # "none" THEN "error"
                                    ELSE IF p.paused_rooms = <<>> THEN "pause_not_found"
                                    ELSE "paused"]
    /\ UNCHANGED <<client_id_counter, client_count, out, closed, lost, conn, listener>>

\* POST /clients/close
ApiCloseClient(client_id) ==
    /\ ApiReady
    /\ Commit(close_client(Server, client_id))
    /\ api' = [ApiCall("close", <<>>, client_id, <<>>) EXCEPT
                 !.pc = "done", !.outcome = "closed"]
    /\ UNCHANGED <<conn, listener>>

\* POST /messages/send, up to the first drain of its broadcast
ApiSendMessage(chat_room, message_data) ==
    /\ ApiReady
    /\ LET r == send_message(Server, chat_room, message_data)
           call == ApiCall("send", chat_room, <<>>, message_data)
       IN  IF r.next = "done"
           THEN /\ Commit(r.sv)
                /\ api' = [call EXCEPT !.pc = "done", !.outcome = r.outcome]
           ELSE LET b == BroadcastBegin(r.sv, r.bc_room, r.bc_msg)
                IN  /\ Commit(b.sv)
                    /\ api' = [call EXCEPT
                                 !.pc = IF b.finished THEN "done" ELSE "bcast",
                                 !.outcome = r.outcome, !.bc_msg = r.bc_msg,
                                 !.bc_pos = b.pos, !.bc_exc = b.exc,
                                 !.failed_clients = b.failed,
                                 !.bc_size = IF r.bc_room \in RoomNames(r.sv.client_list)
                                             THEN Len(Members(r.sv.client_list, r.bc_room))
                                             ELSE 0]
    /\ UNCHANGED <<conn, listener>>

\* the broadcast of POST /messages/send goes on after a drain
ApiBroadcastStep ==
    /\ api.pc = "bcast"
    /\ LET b == BroadcastScan(Server, api.chat_room, api.bc_msg, api.bc_pos, api.bc_size)
       IN  /\ Commit(b.sv)
           /\ api' = [api EXCEPT !.pc = IF b.finished THEN "done" ELSE "bcast",
                                 !.bc_pos = b.pos, !.bc_exc = b.exc,
                                 !.failed_clients = @ \o b.failed]
    /\ UNCHANGED <<conn, listener>>

NextApi ==
    \/ \E c \in Conns : Accept(c)
    \/ \E c \in Conns, stream \in ApiStreams : ReadVerb(c, stream)
    \/ \E c \in Conns, stream \in ApiStreams : ReadCommand(c, stream)
    \/ \E c \in Conns : ErrorClosed(c)
    \/ \E c \in Conns : BroadcastStep(c)
    \/ \E client_id \in ApiIds : ApiPauseClient(client_id)
    \/ \E client_id \in ApiIds : ApiCloseClient(client_id)
    \/ \E chat_room \in ApiRooms, message_data \in ApiTexts :
          ApiSendMessage(chat_room, message_data)
    \/ ApiBroadcastStep

SpecApi == Init /\ [][NextApi]_vars

\* ------------------------------------------------------------------------
\* The registry operations called one after the other, each awaited to its
\* end, with a writer c of its own: register_client, add_chatroom and
\* join_chatroom on names that need not have come through the header parser
\* ------------------------------------------------------------------------
RECURSIVE BroadcastRun(_, _, _, _, _)
BroadcastRun(sv, chat_room, full_message, pos, size) ==
    LET b == BroadcastScan(sv, chat_room, full_message, pos, size)
    IN  IF b.finished THEN b.sv
        ELSE BroadcastRun(b.sv, chat_room, full_message, b.pos, size)

\* the server state when the operation with result r has run to its end
Complete(r, cw) ==
    CASE r.next = "done" -> r.sv
      [] r.next = "err" -> send_error_and_close(r.sv, cw, r.err_msg, r.err_id)
      [] r.next = "bcast" ->
            LET b == BroadcastBegin(r.sv, r.bc_room, r.bc_msg)
            IN  IF b.finished THEN b.sv
                ELSE BroadcastRun(b.sv, r.bc_room, r.bc_msg, b.pos,
                                  Len(Members(r.sv.client_list, r.bc_room)))

CallRooms == {s_main, n_r}
CallIds == {s_client, n_a, s_client \o <<"2">>}

Called(c, verb, chat_room, client_id, outcome, ret) ==
    /\ conn' = [conn EXCEPT ![c] =
                [IdleConn EXCEPT !.pc = "done", !.message_name = verb,
                                 !.chat_room = chat_room, !.client_id = client_id,
                                 !.outcome = outcome, !.ret = ret]]
    /\ UNCHANGED <<listener, api>>

Idle(c) ==
    /\ conn[c].pc = "idle"
    /\ \A d \in 1..(c - 1) : conn[d].pc # "idle"

CallRegister(c, client_name, chat_room) ==
    /\ Idle(c)
    /\ LET r == register_client(Server, c, client_name, chat_room)
       IN  /\ Commit(Complete(r, c))
           /\ Called(c, w_HELLO, chat_room, client_name, r.outcome, r.ret)

CallAddChatroom(c, chat_room, client_id) ==
    /\ Idle(c)
    /\ LET r == add_chatroom(Server, chat_room, client_id, c)
       IN  /\ Commit(r.sv)
           /\ Called(c, w_NEW, chat_room, client_id,
                     IF r.exc = "none" THEN r.status ELSE r.exc, <<>>)

CallJoin(c, chat_room, client_id) ==
    /\ Idle(c)
    /\ LET r == join_chatroom(Server, chat_room, client_id, c)
       IN  /\ Commit(Complete(r, c))
           /\ Called(c, w_JOIN, chat_room, client_id, r.outcome, <<>>)

NextRegistry ==
    \/ \E c \in Conns, n \in CallIds, r \in CallRooms : CallRegister(c, n, r)
    \/ \E c \in Conns, n \in CallIds, r \in CallRooms : CallAddChatroom(c, r, n)
    \/ \E c \in Conns, n \in CallIds, r \in CallRooms : CallJoin(c, r, n)

SpecRegistry == Init /\ [][NextRegistry]_vars

\* ------------------------------------------------------------------------
\* Clients that create two rooms, under one id or under two, and the facade
\* that pauses an id
\* ------------------------------------------------------------------------
PauseStreams ==
    { Cmd(w_NEW, Hdr(n_r, n_a), <<>>),
      Cmd(w_NEW, Hdr(<<"s">>, n_a), <<>>),
      Cmd(w_NEW, Hdr(<<"s">>, n_c), <<>>) }

NextPause ==
    \/ \E c \in Conns : Accept(c)
    \/ \E c \in Conns, stream \in PauseStreams : ReadVerb(c, stream)
    \/ \E c \in Conns, stream \in PauseStreams : ReadCommand(c, stream)
    \/ \E c \in Conns : ErrorClosed(c)
    \/ \E client_id \in {id_a, id_c} : ApiPauseClient(client_id)

SpecPause == Init /\ [][NextPause]_vars

\* ------------------------------------------------------------------------
\* A server that has run for a while.  The clients of Script were served one
\* after the other, each handler run to its end before the next connection
\* was accepted; before each of them a connection that sent an unknown verb
\* was turned away (which leaves client_count one lower, see
\* InitAfterRejection).  Writer 0 is a connection of the past that holds no
\* place among Conns: its handler succeeded, so nothing was written to it and
\* it is in no room.
\* ------------------------------------------------------------------------
n_d == <<"d">>
id_d == ParseHeader(Hdr(n_r, n_d) \o <<" ">>).client_id

FreshServer ==
    [client_list |-> <<>>, client_id_counter |-> 1, client_count |-> 0,
     out |-> [c \in Conns |-> <<>>], closed |-> [c \in Conns |-> FALSE],
     lost |-> [c \in Conns |-> FALSE]]

\* client_callback for a connection that sent an unknown verb, from its
\* accept to its end
Rejected(sv) == [sv EXCEPT !.client_count = @ + 1 - 1 - 1]

\* client_callback from the accept to its end for a stream with a valid verb
\* that the capacity test lets through
Handle(sv, cw, stream) ==
    LET verb == readuntil(stream, " ")
        header == readuntil(verb.rest, " ")
        h == ParseHeader(header.data)
    IN  Complete(Dispatch([sv EXCEPT !.client_count = @ + 1], cw,
                          MessageName(verb.data), h.chat_room, h.client_id,
                          header.rest),
                 cw)

\* the record of a handler that has finished
Handled(stream, outcome) ==
    LET verb == readuntil(stream, " ")
        header == readuntil(verb.rest, " ")
        h == ParseHeader(header.data)
    IN  [IdleConn EXCEPT !.pc = "done", !.stream = stream,
                         !.message_name = MessageName(verb.data),
                         !.chat_room = h.chat_room, !.client_id = h.client_id,
                         !.message_data = header.rest, !.outcome = outcome]

Script ==
    << [cw |-> 1, stream |-> Cmd(w_NEW, Hdr(n_r, n_a), <<>>), outcome |-> "created"],
       [cw |-> 0, stream |-> Cmd(w_SEND, Hdr(n_r, n_a), room_r), outcome |-> "sent"],
       [cw |-> 2, stream |-> Cmd(w_JOIN, Hdr(n_r, n_c), <<>>), outcome |-> "joined"],
       [cw |-> 0, stream |-> Cmd(w_SEND, Hdr(n_r, n_c), room_r), outcome |-> "sent"],
       [cw |-> 0, stream |-> Cmd(w_SEND, Hdr(n_r, n_a), room_r), outcome |-> "sent"],
       [cw |-> 0, stream |-> Cmd(w_SEND, Hdr(n_r, n_c), room_r), outcome |-> "sent"] >>

\* the server after the first k clients of Script
RECURSIVE After(_)
After(k) ==
    IF k = 0 THEN FreshServer
    ELSE Handle(Rejected(After(k - 1)), Script[k].cw, Script[k].stream)

\* the handlers after the first k clients of Script
HandlersAfter(k) ==
    [c \in Conns |->
        IF \E i \in 1..k : Script[i].cw = c
        THEN LET i == CHOOSE i \in 1..k : Script[i].cw = c
             IN  Handled(Script[i].stream, Script[i].outcome)
        ELSE IdleConn]

InitAfter(k) ==
    /\ client_list = After(k).client_list
    /\ client_id_counter = After(k).client_id_counter
    /\ client_count = After(k).client_count
    /\ out = After(k).out
    /\ closed = After(k).closed
    /\ lost = After(k).lost
    /\ conn = HandlersAfter(k)
    /\ api = ApiIdle
    /\ listener = [phase |-> "serving", use_ssl |-> "None", cert_path |-> "None"]

\* ------------------------------------------------------------------------
\* Sessions of one room, at any point of Script, that send and are paused
\* ------------------------------------------------------------------------
InitSessions == \E k \in 1..Len(Script) : InitAfter(k)

SessionStreams ==
    { Cmd(w_SEND, Hdr(n_r, n_a), room_r),
      Cmd(w_SEND, Hdr(n_r, n_c), room_r) }

NextSessions ==
    \/ \E c \in Conns : Accept(c)
    \/ \E c \in Conns, stream \in SessionStreams : ReadVerb(c, stream)
    \/ \E c \in Conns, stream \in SessionStreams : ReadCommand(c, stream)
    \/ \E c \in Conns : ErrorClosed(c)
    \/ \E c \in Conns : BroadcastStep(c)
    \/ \E client_id \in {id_a, id_c} : ApiPauseClient(client_id)

SpecSessions == InitSessions /\ [][NextSessions]_vars

\* ------------------------------------------------------------------------
\* A room with two sessions that receive broadcasts: clients join it and send
\* to it, the facade sends to it and pauses a session, while broadcasts run
\* ------------------------------------------------------------------------
InitBroadcast == InitAfter(4) \/ InitAfter(6)

BroadcastStreams ==
    { Cmd(w_JOIN, Hdr(n_r, n_c), <<>>),
      Cmd(w_JOIN, Hdr(n_r, n_d), <<>>),
      Cmd(w_SEND, Hdr(n_r, n_a), room_r),
      Cmd(w_SEND, Hdr(n_r, n_d), room_r) }

NextBroadcast ==
    \/ \E c \in Conns : Accept(c)
    \/ \E c \in Conns, stream \in BroadcastStreams : ReadVerb(c, stream)
    \/ \E c \in Conns, stream \in BroadcastStreams : ReadCommand(c, stream)
    \/ \E c \in Conns : ErrorClosed(c)
    \/ \E c \in Conns : BroadcastStep(c)
    \/ ApiPauseClient(id_c)
    \/ ApiSendMessage(room_r, <<"h", "i">>)
    \/ ApiBroadcastStep

SpecBroadcast == InitBroadcast /\ [][NextBroadcast]_vars

\* ------------------------------------------------------------------------
\* The same room, with peers that go away: the peer of a connection whose
\* handler has returned resets it, and the server learns of it only when it
\* writes to the connection
\* ------------------------------------------------------------------------
PeerReset(c) ==
    /\ conn[c].pc = "done"
    /\ ~lost[c] /\ ~closed[c]
    /\ lost' = [lost EXCEPT ![c] = TRUE]
    /\ UNCHANGED <<client_list, client_id_counter, client_count, out, closed, conn,
                   listener, api>>

FailureStreams ==
    { Cmd(w_JOIN, Hdr(n_r, n_d), <<>>),
      Cmd(w_SEND, Hdr(n_r, n_d), room_r) }

NextFailures ==
    \/ \E c \in Conns : Accept(c)
    \/ \E c \in Conns, stream \in FailureStreams : ReadVerb(c, stream)
    \/ \E c \in Conns, stream \in FailureStreams : ReadCommand(c, stream)
    \/ \E c \in Conns : ErrorClosed(c)
    \/ \E c \in Conns : BroadcastStep(c)
    \/ ApiSendMessage(room_r, <<"h", "i">>)
    \/ ApiBroadcastStep
    \/ PeerReset(1)

SpecFailures == InitAfter(4) /\ [][NextFailures]_vars

\* ------------------------------------------------------------------------
\* Connections that are turned away or fail: a client that goes away before
\* its verb is complete (IncompleteReadError), a verb outside the
\* vocabulary, a NEW for a room that exists (under the creator's id, under
\* another id, under an id spelled like the room), a header without a colon
\* and one with two, and whatever comes once client_count exceeds max_clients
\* ------------------------------------------------------------------------
ErrorStreams ==
    { Cmd(w_NEW, Hdr(n_r, n_a), <<>>),
      Cmd(w_NEW, Hdr(n_r, n_r), <<>>),
      Cmd(<<"F","O","O">>, Hdr(n_r, n_a), <<"x">>),
      w_NEW,
      Cmd(w_NEW, n_r, <<>>),
      Cmd(w_LIST, Hdr(n_r, Hdr(n_a, n_c)), s_CHAT_ROOMS) }

NextErrors ==
    \/ \E c \in Conns : Accept(c)
    \/ \E c \in Conns, stream \in ErrorStreams : ReadVerb(c, stream)
    \/ \E c \in Conns, stream \in ErrorStreams : ReadCommand(c, stream)
    \/ \E c \in Conns : ErrorClosed(c)

SpecErrors == Init /\ [][NextErrors]_vars

\* ------------------------------------------------------------------------
\* Listings: clients that send LIST with a kind as its body, after a header
\* with or without a colon, beside a client that creates a room; and the two
\* listing operations called directly, with and without a client id and a
\* room
\* ------------------------------------------------------------------------
ListingStreams ==
    { Cmd(w_NEW, Hdr(n_r, n_a), <<>>),
      Cmd(w_LIST, Hdr(n_r, n_a), s_CLIENT_CHAT_ROOMS),
      Cmd(w_LIST, Hdr(n_r, n_a), s_CLIENTS_FOR_CHAT_ROOM),
      Cmd(w_LIST, Hdr(n_r, n_a), <<"x">>) }

ListTypes ==
    {s_ALL, s_CHAT_ROOMS, s_CHAT_ROOM_AND_CLIENTS, s_CLIENT_CHAT_ROOMS,
     s_CLIENTS_FOR_CHAT_ROOM, <<"x">>}

\* (client_id, chat_room): both left out, or both given
ListArguments == {<<None, None>>, <<id_a, room_r>>}

CallListChatrooms(list_type, client_id, chat_room) ==
    /\ ApiReady
    /\ api' = [ApiCall("list_chatrooms", chat_room, client_id, list_type) EXCEPT
                 !.pc = "done", !.outcome = "returned",
                 !.ret = list_chatrooms(client_list, list_type, client_id, chat_room)]
    /\ UNCHANGED <<client_list, client_id_counter, client_count, out, closed, lost,
                   conn, listener>>

CallListChatroomsAsDict(list_type, client_id, chat_room) ==
    /\ ApiReady
    /\ api' = [ApiCall("list_chatrooms_as_dict", chat_room, client_id, list_type) EXCEPT
                 !.pc = "done", !.outcome = "returned",
                 !.ret = list_chatrooms_as_dict(client_list, list_type, client_id,
                                                chat_room)]
    /\ UNCHANGED <<client_list, client_id_counter, client_count, out, closed, lost,
                   conn, listener>>

NextListing ==
    \/ \E c \in Conns : Accept(c)
    \/ \E c \in Conns, stream \in ListingStreams : ReadVerb(c, stream)
    \/ \E c \in Conns, stream \in ListingStreams : ReadCommand(c, stream)
    \/ \E c \in Conns : ErrorClosed(c)
    \/ \E list_type \in ListTypes, args \in ListArguments :
          CallListChatrooms(list_type, args[1], args[2])
    \/ \E list_type \in ListTypes, args \in ListArguments :
          CallListChatroomsAsDict(list_type, args[1], args[2])

SpecListing == Init /\ [][NextListing]_vars

\* ========================================================================
\* Properties
\* ========================================================================
\* the writers of the sessions of room r that a broadcast reaches
EligibleWriters(cl, r) ==
    IF r \in RoomNames(cl)
    THEN {Members(cl, r)[i].writer :
             i \in {j \in DOMAIN Members(cl, r) :
                       Members(cl, r)[j].session /\ Eligible(Members(cl, r)[j])}}
    ELSE {}

\* the keys stored in each room
Membership(cl) == [r \in RoomNames(cl) |-> Keys(Members(cl, r))]

\* the second token of a stream, and what a well-formed header r:c is
HeaderOf(stream) == readuntil(readuntil(stream, " ").rest, " ")
HeaderParts(h) == split(SubSeq(h, 1, Len(h) - 1), ":")
WellFormedHeader(h) ==
    /\ Len(h) > 0
    /\ Len(HeaderParts(h)) = 2
    /\ \A i \in 1..2 : HeaderParts(h)[i] # <<>> /\ " " \notin Range(HeaderParts(h)[i])

\* the handler of c has decoded its command in this step
Decoded(c) == conn[c].pc = "header" /\ conn'[c].pc # "header"

\* C1: when a SEND with body b from a registered pair (r, c) is accepted, the
\* frame `MSG b` is written to the sessions of room r that are CONNECTED or
\* ACTIVE (the first of them in the step that accepts the SEND) and to no
\* other writer.  The code passes (chat_room, message_data) to
\* send_to_all_clients(message_data, chat_room): it writes `MSG r` to the room
\* named b.
C1_SendReachesRoom ==
    [][\A c \in Conns :
        /\ (Decoded(c) /\ conn'[c].message_name = w_SEND /\ conn'[c].outcome = "sent")
           => /\ \A w \in Conns : out'[w] # out[w] =>
                    /\ out'[w] = Append(out[w], MsgFrame(Text(conn'[c].message_data)))
                    /\ w \in EligibleWriters(client_list', conn'[c].chat_room)
              /\ EligibleWriters(client_list', conn'[c].chat_room) # {}
                    => \E w \in Conns : out'[w] # out[w]
        /\ (conn[c].pc = "bcast" /\ conn[c].message_name = w_SEND /\ conn'[c] # conn[c])
           => \A w \in Conns : out'[w] # out[w] =>
                    /\ out'[w] = Append(out[w], MsgFrame(Text(conn[c].message_data)))
                    /\ w \in EligibleWriters(client_list, conn[c].chat_room)
      ]_vars

\* C2: a connection that sent `HELLO main:client ` is registered in room
\* "main" under a generated id (client2 on a fresh counter).  The rest of the
\* scenario (SEND main:client2 reaching client3) presupposes this
\* registration and a room "main", which no state of the server has.
C2_HelloMainRegistered ==
    \A c \in Conns :
        (conn[c].pc = "done" /\ conn[c].stream = Cmd(w_HELLO, Hdr(s_main, s_client), <<>>))
        => /\ conn[c].chat_room = s_main
           /\ conn[c].outcome = "registered"
           /\ Registered(client_list, s_main, conn[c].ret)

\* C3: in every reachable state the registry contains the default room "main"
C3_DefaultRoomExists == s_main \in RoomNames(client_list)

\* C4: for every well-formed header `r:c ` the decoded command has room
\* exactly r and client id exactly c
C4_HeaderDecodedExactly ==
    \A c \in Conns :
        (/\ conn[c].pc \in {"done", "err_drain", "bcast"}
         /\ HeaderOf(conn[c].stream).ok
         /\ WellFormedHeader(HeaderOf(conn[c].stream).data))
        => /\ conn[c].chat_room = HeaderParts(HeaderOf(conn[c].stream).data)[1]
           /\ conn[c].client_id = HeaderParts(HeaderOf(conn[c].stream).data)[2]

\* C5: after add_chatroom(r, c) succeeds, for r other than "main" that did
\* not exist, r exists and c is a member of r, a session with status NEW
\* that holds the creating connection's writer
C5_CreatedRoomHasCreator ==
    [][\A c \in Conns :
        (conn[c].pc \in {"header", "idle"} /\ conn'[c].outcome = "created")
        => /\ conn'[c].chat_room # s_main
           /\ conn'[c].chat_room \notin RoomNames(client_list)
           /\ Registered(client_list', conn'[c].chat_room, conn'[c].client_id)
           /\ Get(Members(client_list', conn'[c].chat_room), conn'[c].client_id)
                 = Entry(conn'[c].client_id, c, "NEW")
      ]_vars

C5_Witness ==
    \E c \in Conns :
        /\ conn[c].pc = "done" /\ conn[c].message_name = w_NEW
        /\ conn[c].outcome = "created"
        /\ Registered(client_list, conn[c].chat_room, conn[c].client_id)

\* C6: a NEW for the room "main" fails with the protected-room error:
\* add_chatroom returns that error, for every client id and registry state
C6_MainIsProtected ==
    \A c \in Conns :
        (/\ conn[c].pc \in {"done", "err_drain"}
         /\ conn[c].message_name = w_NEW
         /\ conn[c].chat_room = s_main
         /\ ~TooLong(conn[c].message_data))
        => conn[c].outcome = "protected_room"

\* C7: once a room exists, every later NEW for it, by any client, fails with
\* the room-exists error and leaves the registry as it was
C7_SecondNewFailsRoomExists ==
    [][\A c \in Conns :
        (/\ Decoded(c)
         /\ conn'[c].message_name = w_NEW
         /\ ~TooLong(conn'[c].message_data)
         /\ conn'[c].chat_room \in RoomNames(client_list))
        => /\ conn'[c].outcome = "room_exists"
           /\ client_list' = client_list
      ]_vars

\* C8: a registration with the sentinel id "client" is given an id that is
\* unused in the room at that moment and differs from the id of every earlier
\* sentinel registration in that room; the sessions the room had are kept
SentinelRegistered(cn) ==
    /\ cn.pc = "done" /\ cn.message_name = w_HELLO
    /\ cn.client_id = s_client /\ cn.outcome = "registered"

C8_SentinelIdsDistinct ==
    [][\A c \in Conns :
        (conn[c].pc = "idle" /\ SentinelRegistered(conn'[c]))
        => /\ conn'[c].chat_room \in RoomNames(client_list)
           /\ conn'[c].ret \notin Keys(Members(client_list, conn'[c].chat_room))
           /\ \A d \in Conns \ {c} :
                 (SentinelRegistered(conn[d]) /\ conn[d].chat_room = conn'[c].chat_room)
                 => conn[d].ret # conn'[c].ret
           /\ \A i \in DOMAIN Members(client_list, conn'[c].chat_room) :
                 Members(client_list', conn'[c].chat_room)[i]
                    = Members(client_list, conn'[c].chat_room)[i]
           /\ Get(Members(client_list', conn'[c].chat_room), conn'[c].ret)
                 = Entry(conn'[c].ret, c, "NEW")
      ]_vars

C8_Witness ==
    \E c, d \in Conns :
        /\ c # d
        /\ SentinelRegistered(conn[c]) /\ SentinelRegistered(conn[d])
        /\ conn[c].chat_room = conn[d].chat_room
        /\ s_client \o <<"2">> \in Keys(Members(client_list, conn[c].chat_room))
        /\ conn[c].ret # s_client \o <<"2">> /\ conn[d].ret # s_client \o <<"2">>

\* C9: a SEND whose (room, client id) pair is not in the registry is answered
\* with the not-registered error and its connection is closed; the registry
\* (every status) stays as it was and nothing is written to another writer
C9_UnregisteredSendRejected ==
    [][\A c \in Conns :
        /\ (/\ Decoded(c)
            /\ conn'[c].message_name = w_SEND
            /\ ~TooLong(conn'[c].message_data)
            /\ ~Registered(client_list, conn'[c].chat_room, conn'[c].client_id))
           => /\ conn'[c].pc = "err_drain"
              /\ conn'[c].outcome = "not_registered"
              /\ out'[c] = Append(out[c], NotRegisteredFrame)
              /\ \A w \in Conns \ {c} : out'[w] = out[w]
              /\ client_list' = client_list
        /\ (conn[c].pc = "err_drain" /\ conn[c].outcome = "not_registered"
               /\ conn'[c] # conn[c])
           => /\ conn'[c].pc = "done"
              /\ closed'[c]
              /\ out' = out
              /\ client_list' = client_list
      ]_vars

C9_Witness ==
    \E c \in Conns :
        /\ conn[c].pc = "done" /\ conn[c].outcome = "not_registered"
        /\ conn[c].message_name = w_SEND
        /\ closed[c]
        /\ \E r \in RoomNames(client_list) : Members(client_list, r) # <<>>

\* C10: a verb outside the fixed vocabulary is answered with the error frame
\* that names it, the connection is closed, and no room's membership changes
FixedVocabulary ==
    {w_NEW, w_LIST, w_JOIN, w_HELLO, w_SEND, w_PAUSE, w_QUIT, w_ERROR, w_FROM, w_MSG}

C10_UnknownVerbRejected ==
    [][\A c \in Conns :
        /\ (/\ conn[c].pc = "verb" /\ conn'[c].pc # "verb"
            /\ conn'[c].stream # <<>>
            /\ conn'[c].message_name \notin FixedVocabulary)
           => /\ conn'[c].pc = "err_drain"
              /\ conn'[c].outcome = "unknown_command"
              /\ Len(out'[c]) = Len(out[c]) + 1
              /\ out'[c][Len(out'[c])].a = conn'[c].message_name
              /\ out'[c][Len(out'[c])].fmt =
                    "ERROR: The {a} command is not a valid command, the client connection will be closed"
              /\ Membership(client_list') = Membership(client_list)
        /\ (conn[c].pc = "err_drain" /\ conn[c].outcome = "unknown_command"
               /\ conn'[c] # conn[c])
           => /\ conn'[c].pc = "done"
              /\ closed'[c]
              /\ out' = out
              /\ Membership(client_list') = Membership(client_list)
      ]_vars

C10_Witness ==
    \E c \in Conns :
        /\ conn[c].pc = "done" /\ conn[c].outcome = "unknown_command"
        /\ conn[c].message_name = <<"F","O","O">>
        /\ closed[c]
        /\ \E r \in RoomNames(client_list) : Members(client_list, r) # <<>>

\* the body of a stream: what follows its second space
BodyOf(stream) == readuntil(readuntil(stream, " ").rest, " ").rest

\* C11: a command (valid verb, admitted by the capacity test) whose body is
\* longer than max_message_length is answered with the too-long error,
\* whatever its verb, and its connection is closed; it is not dispatched: the
\* registry and the id counter stay as they were and nothing is written to
\* another connection.  A body of exactly max_message_length is not rejected
\* for its length.
C11_TooLongRejected ==
    [][\A c \in Conns :
        /\ (Decoded(c) /\ Len(BodyOf(conn'[c].stream)) > max_message_length)
           => /\ conn'[c].pc = "err_drain"
              /\ conn'[c].outcome = "too_long"
              /\ out'[c] = Append(out[c], TooLongFrame)
              /\ \A w \in Conns \ {c} : out'[w] = out[w]
              /\ client_list' = client_list
              /\ client_id_counter' = client_id_counter
        /\ (conn[c].pc = "err_drain" /\ conn[c].outcome = "too_long"
               /\ conn'[c] # conn[c])
           => /\ conn'[c].pc = "done"
              /\ closed'[c]
              /\ out' = out
              /\ client_list' = client_list
        /\ (Decoded(c) /\ Len(BodyOf(conn'[c].stream)) = max_message_length)
           => conn'[c].outcome # "too_long"
      ]_vars

C11_Witness ==
    \E c, d \in Conns :
        /\ conn[c].pc = "done" /\ conn[c].outcome = "too_long" /\ closed[c]
        /\ conn[c].message_name = w_HELLO
        /\ Len(BodyOf(conn[d].stream)) = max_message_length
        /\ conn[d].pc = "done" /\ conn[d].outcome = "created"
        /\ client_list # <<>>

\* client_id is a key of some room
InSomeRoom(cl, client_id) ==
    \E r \in RoomNames(cl) : client_id \in Keys(Members(cl, r))

\* the step is a call of the facade's route op
ApiCalled(op) == api'.calls = api.calls + 1 /\ api'.op = op

\* C12: pause(id) for an id that is a member of no room returns the
\* not-found summary and changes nothing: rooms, memberships, statuses (and
\* counters and connections) are as before the call
C12_PauseAbsentIsNoOp ==
    [][(ApiCalled("pause") /\ ~InSomeRoom(client_list, api'.client_id))
        => /\ api'.outcome = "pause_not_found"
           /\ client_list' = client_list
           /\ UNCHANGED <<client_id_counter, client_count, out, closed, conn>>
      ]_vars

C12_Witness ==
    /\ api.op = "pause" /\ api.outcome = "pause_not_found"
    /\ api.client_id = room_r
    /\ EligibleWriters(client_list, room_r) # {}

\* C13: after close(client_id) for an id that is a member of one or more
\* rooms, the id is a member of no room
C13_ClosedClientRemoved ==
    [][(ApiCalled("close") /\ InSomeRoom(client_list, api'.client_id))
        => ~InSomeRoom(client_list', api'.client_id)
      ]_vars

\* C14: closeClient(id) for an id that is a member of no room changes no
\* room, membership or session status, whatever string the id is
C14_CloseUnknownIsNoOp ==
    [][(ApiCalled("close") /\ ~InSomeRoom(client_list, api'.client_id))
        => client_list' = client_list
      ]_vars

\* C15: sendToRoom(room, text) for a room that is not in the registry fails
\* with room-not-found, writes a frame to no session and leaves the registry
\* unchanged
C15_SendToMissingRoomFails ==
    [][(ApiCalled("send") /\ api'.chat_room \notin RoomNames(client_list))
        => /\ api'.pc = "done"
           /\ api'.outcome = "room_not_found"
           /\ out' = out
           /\ client_list' = client_list
      ]_vars

C15_Witness ==
    /\ api.op = "send" /\ api.outcome = "room_not_found"
    /\ api.chat_room \notin RoomNames(client_list)
    /\ EligibleWriters(client_list, room_r) # {}

\* C16: a connection whose verb has been read while client_count exceeds
\* max_clients is rejected with the capacity error whatever verb it sent,
\* valid or not, and the registry is unchanged
C16_CapacityBeforeVerb ==
    [][\A c \in Conns :
        (/\ conn[c].pc = "verb" /\ conn'[c].pc # "verb"
         /\ conn'[c].stream # <<>>
         /\ client_count > max_clients)
        => /\ conn'[c].outcome = "capacity"
           /\ client_list' = client_list
      ]_vars

\* connection c has passed the capacity test and its handler has not finished
Admitted(c) ==
    \/ conn[c].pc \in {"header", "bcast"}
    \/ conn[c].pc = "err_drain" /\ conn[c].outcome \notin {"unknown_command", "capacity"}

\* C17: at every moment at most max_clients connections have passed the
\* capacity test and have a handler that has not finished
C17_AdmittedAtMostMax ==
    Cardinality({c \in Conns : Admitted(c)}) <= max_clients

\* the state SpecAfterRejection starts in, as Spec reaches it: the first
\* connection was rejected for its verb and closed, nothing else has happened
AfterRejectionReached ==
    /\ conn[1].pc = "done" /\ conn[1].outcome = "unknown_command"
    /\ \A c \in Conns \ {1} : conn[c] = IdleConn
    /\ client_list = <<>> /\ client_id_counter = 1 /\ client_count = -1

\* C18: with encryption enabled and no certificate path the constructor
\* raises: the server is never constructed, never listens and never accepts
\* a connection
C18_SslWithoutCertificateRaises ==
    (listener.use_ssl = "True" /\ listener.cert_path = "None")
    => /\ listener.phase \in {"arguments", "RuntimeError"}
       /\ \A c \in Conns : conn[c] = IdleConn
       /\ client_count = 0

C18_Witness ==
    /\ listener.use_ssl = "True" /\ listener.cert_path = "None"
    /\ listener.phase = "RuntimeError"

\* C19: a HELLO or a JOIN for a room that is not in the registry (the room
\* as the server decodes it from the header) fails and leaves the registry
\* as it was, also when its connection is closed afterwards; a room enters
\* the registry only in the step of a NEW that succeeds for it
C19_OnlyNewCreatesRooms ==
    [][/\ \A c \in Conns :
            /\ (/\ Decoded(c)
                /\ conn'[c].message_name \in {w_HELLO, w_JOIN}
                /\ conn'[c].chat_room \notin RoomNames(client_list))
               => /\ conn'[c].outcome \in {"room_not_found", "join_room_not_found"}
                  /\ client_list' = client_list
            /\ (/\ conn[c].pc = "err_drain" /\ conn[c].outcome = "room_not_found"
                /\ conn'[c] # conn[c])
               => client_list' = client_list
       /\ RoomNames(client_list') # RoomNames(client_list)
            => \E c \in Conns :
                  /\ Decoded(c)
                  /\ conn'[c].message_name = w_NEW
                  /\ conn'[c].outcome = "created"
                  /\ RoomNames(client_list') = RoomNames(client_list) \cup {conn'[c].chat_room}
      ]_vars

C19_Witness ==
    \E c, d, e \in Conns :
        /\ conn[c].pc = "done" /\ conn[c].message_name = w_HELLO
        /\ conn[c].outcome = "room_not_found" /\ closed[c]
        /\ conn[d].pc = "done" /\ conn[d].message_name = w_JOIN
        /\ conn[d].outcome = "join_room_not_found"
        /\ conn[e].pc = "done" /\ conn[e].outcome = "created"
        /\ RoomNames(client_list) = {conn[e].chat_room}
        /\ Keys(Members(client_list, conn[e].chat_room)) = {conn[e].client_id}

\* the outcomes of a connection that was turned away before the dispatch
Undispatched ==
    {"incomplete", "unknown_command", "capacity", "invalid_format", "too_long"}

\* C20: a connection whose command was accepted and dispatched has, when its
\* handler has finished, exactly one frame written to it and has been closed
\* by the server
C20_OneResponseOneClose ==
    \A c \in Conns :
        (/\ conn[c].pc = "done"
         /\ conn[c].message_name \in FixedVocabulary
         /\ conn[c].outcome \notin Undispatched)
        => /\ Len(out[c]) = 1
           /\ closed[c]

\* the status of the session stored under (r, id); "" when there is none
StatusOf(cl, r, id) ==
    IF Registered(cl, r, id) /\ Get(Members(cl, r), id).session
    THEN Get(Members(cl, r), id).status
    ELSE ""

\* the writer of the session stored under (r, id)
WriterOf(cl, r, id) == Get(Members(cl, r), id).writer

\* C21: a SEND of a registered session is accepted, and each accepted SEND
\* changes the status of the sender's session from NEW to CONNECTED, from
\* CONNECTED to ACTIVE and from PAUSED to ACTIVE, and leaves ACTIVE as it is;
\* the session keeps its writer.  So a session is CONNECTED after its first
\* SEND, ACTIVE after its second, and ACTIVE after a SEND that follows a pause.
C21_SendAdvancesStatus ==
    [][\A c \in Conns :
        (/\ Decoded(c)
         /\ conn'[c].message_name = w_SEND
         /\ StatusOf(client_list, conn'[c].chat_room, conn'[c].client_id) # "")
        => LET before == StatusOf(client_list, conn'[c].chat_room, conn'[c].client_id)
               after == StatusOf(client_list', conn'[c].chat_room, conn'[c].client_id)
           IN  /\ conn'[c].outcome = "sent"
               /\ before \in {"NEW", "CONNECTED", "PAUSED", "ACTIVE"}
               /\ before = "NEW" => after = "CONNECTED"
               /\ before = "CONNECTED" => after = "ACTIVE"
               /\ before = "PAUSED" => after = "ACTIVE"
               /\ before = "ACTIVE" => after = "ACTIVE"
               /\ WriterOf(client_list', conn'[c].chat_room, conn'[c].client_id)
                     = WriterOf(client_list, conn'[c].chat_room, conn'[c].client_id)
      ]_vars

\* a session that was paused while CONNECTED is ACTIVE after the SEND of the
\* third connection, and the other session, which has sent twice, is ACTIVE
C21_Witness ==
    /\ conn[3].pc = "done" /\ conn[3].message_name = w_SEND /\ conn[3].outcome = "sent"
    /\ conn[3].client_id = id_c
    /\ api.op = "pause" /\ api.outcome = "paused" /\ api.client_id = id_c
    /\ StatusOf(client_list, room_r, id_c) = "ACTIVE"
    /\ StatusOf(client_list, room_r, id_a) = "ACTIVE"

\* the transitions of a session's status that the life cycle allows
LegalTransition(s, t) ==
    \/ s = t
    \/ /\ s # "CLOSED"
       /\ \/ <<s, t>> \in {<<"NEW", "CONNECTED">>, <<"CONNECTED", "ACTIVE">>,
                            <<"ACTIVE", "PAUSED">>, <<"PAUSED", "ACTIVE">>,
                            <<"ERROR", "CLOSED">>, <<"CLOSING", "CLOSED">>}
          \/ t \in {"ERROR", "CLOSING"}

\* C22: in every step the status of the session stored under a (room, client
\* id) stays as it is or changes along a legal transition: NEW to CONNECTED,
\* CONNECTED to ACTIVE, ACTIVE to PAUSED, PAUSED to ACTIVE, any status to
\* ERROR or CLOSING, ERROR or CLOSING to CLOSED, and nothing out of CLOSED
C22_OnlyLegalTransitions ==
    [][\A i \in DOMAIN client_list : \A j \in DOMAIN client_list[i].clients :
        LET r == client_list[i].room
            id == client_list[i].clients[j].id
        IN  (StatusOf(client_list, r, id) # "" /\ StatusOf(client_list', r, id) # "")
            => LegalTransition(StatusOf(client_list, r, id), StatusOf(client_list', r, id))
      ]_vars

\* the formats of the frames a broadcast writes: the text of a SEND or of
\* sendToRoom, and the join announcement
BroadcastFormats == {"MSG {a}", "MSG Client {a} has joined Chat room {b}"}

\* the writers of the sessions of room r whose status is CONNECTED or ACTIVE
ReceivingWriters(cl, r) ==
    {w \in Conns :
        /\ r \in RoomNames(cl)
        /\ \E j \in DOMAIN Members(cl, r) :
              /\ Members(cl, r)[j].session
              /\ Members(cl, r)[j].writer = w
              /\ Members(cl, r)[j].status \in {"CONNECTED", "ACTIVE"}}

\* the room of the broadcast that takes a step: of a handler that starts or
\* continues one, or of the call of the facade
BroadcastRooms ==
    {r \in RoomNames(client_list') :
        \/ \E c \in Conns : /\ conn'[c] # conn[c] /\ conn'[c].bc_msg # NoFrame
                             /\ conn'[c].bc_room = r
        \/ api' # api /\ api'.bc_msg # NoFrame /\ api'.chat_room = r}

\* C23: whenever a broadcast (of a SEND, of a join announcement or of
\* sendToRoom) writes its MSG frame to a writer, that writer belongs to a
\* session of the broadcast's room whose status is CONNECTED or ACTIVE at
\* the moment of the write, whatever the other connections and the facade
\* did while the broadcast was suspended
C23_BroadcastOnlyToReceiving ==
    [][\A w \in Conns :
        (/\ Len(out'[w]) > Len(out[w])
         /\ out'[w][Len(out'[w])].fmt \in BroadcastFormats)
        => \E r \in BroadcastRooms : w \in ReceivingWriters(client_list', r)
      ]_vars

\* the announcement of a join has been written to the first session and the
\* broadcast is suspended before the second, which has been paused meanwhile
C23_Witness ==
    /\ conn[3].pc = "bcast" /\ conn[3].message_name = w_JOIN
    /\ conn[3].client_id = id_d /\ conn[3].bc_pos = 2
    /\ out[1][Len(out[1])] = MsgFrame(JoinFrame(id_d, room_r))
    /\ api.op = "pause" /\ api.outcome = "paused"
    /\ StatusOf(client_list, room_r, id_c) = "PAUSED"

\* C24: register_client(room, requestedId) with a requestedId other than the
\* sentinel "client" that is already a member of the room returns a generated
\* id different from requestedId, and the session of requestedId keeps its
\* writer and its status
C24_CollidingIdGetsFreshId ==
    [][\A c \in Conns :
        (/\ conn[c].pc = "idle" /\ conn'[c].pc = "done"
         /\ conn'[c].message_name = w_HELLO
         /\ conn'[c].client_id # s_client
         /\ Registered(client_list, conn'[c].chat_room, conn'[c].client_id))
        => /\ conn'[c].ret # conn'[c].client_id
           /\ Get(Members(client_list', conn'[c].chat_room), conn'[c].client_id)
                 = Get(Members(client_list, conn'[c].chat_room), conn'[c].client_id)
      ]_vars

\* the first position from pos on of a session that is CONNECTED or ACTIVE,
\* 0 when there is none
FirstReceiving(clients, pos) ==
    LET S == {q \in pos..Len(clients) :
                 clients[q].session /\ clients[q].status \in {"CONNECTED", "ACTIVE"}}
    IN  IF S = {} THEN 0 ELSE CHOOSE q \in S : \A p \in S : q <= p

\* the broadcast of handler c, at position pos of clients, writes frame to the
\* next session that is CONNECTED or ACTIVE and to nobody else, or is over
\* when there is no such session left
WritesNext(c, clients, pos, frame) ==
    LET q == FirstReceiving(clients, pos)
    IN  IF q = 0
        THEN conn'[c].pc = "done" /\ out' = out
        ELSE /\ conn'[c].bc_pos = q + 1
             /\ out' = [out EXCEPT ![clients[q].writer] = Append(@, frame)]

RoomsOf(cl, id) ==
    LET F[i \in 0..Len(cl)] ==
            IF i = 0 THEN <<>>
            ELSE IF StatusOf(cl, cl[i].room, id) # "" THEN Append(F[i - 1], cl[i].room)
            ELSE F[i - 1]
    IN  F[Len(cl)]

\* C26: pause(id) leaves the rooms and their members as they are, stores the
\* status PAUSED in the session of id in every room that has one, leaves every
\* other session (and the writer of every session) as it was, and returns the
\* list of exactly the rooms that have a session of id
C26_PauseSetsPausedEverywhere ==
    [][ApiCalled("pause")
        => /\ Len(client_list') = Len(client_list)
           /\ \A i \in DOMAIN client_list :
                 /\ client_list'[i].room = client_list[i].room
                 /\ Len(client_list'[i].clients) = Len(client_list[i].clients)
                 /\ \A j \in DOMAIN client_list[i].clients :
                       LET e == client_list[i].clients[j]
                       IN  client_list'[i].clients[j] =
                              IF e.id = api'.client_id /\ e.session
                              THEN [id |-> e.id, session |-> TRUE, writer |-> e.writer,
                                    status |-> "PAUSED"]
                              ELSE e
           /\ api'.ret = RoomsOf(client_list, api'.client_id)
           /\ UNCHANGED <<client_id_counter, client_count, out, closed, lost, conn>>
      ]_vars

\* the id paused has a session in each of two rooms, and both are PAUSED
C26_Witness ==
    /\ api.op = "pause" /\ api.client_id = id_a /\ Len(api.ret) = 2
    /\ Len(client_list) = 2
    /\ \A i \in DOMAIN client_list : StatusOf(client_list, client_list[i].room, id_a) = "PAUSED"

\* The broadcast to room r that stood at position pos with the failures
\* failed goes on in this step, its record being new afterwards: with no
\* receiving session left it returns normally; otherwise it turns to the next
\* receiving session, writes its frame there and nowhere else, or, when that
\* session's peer is gone, writes nothing and notes the writer as failed, and
\* in both cases is still running
GoesOn(r, pos, failed, new) ==
    LET clients == Members(client_list', r)
        q == FirstReceiving(clients, pos)
    IN  IF q = 0
        THEN /\ new.pc = "done" /\ new.bc_exc = "none"
             /\ new.failed_clients = failed
             /\ out' = out
        ELSE /\ new.pc = "bcast" /\ new.bc_exc = "none"
             /\ new.bc_pos = q + 1
             /\ IF lost[clients[q].writer]
                THEN out' = out /\ new.failed_clients = Append(failed, clients[q].writer)
                ELSE /\ out' = [out EXCEPT ![clients[q].writer] = Append(@, new.bc_msg)]
                     /\ new.failed_clients = failed

\* the room has the size it had when the broadcast began
SameSize(r, size) == r \in RoomNames(client_list) /\ Len(Members(client_list, r)) = size

SameButFor(r, id) ==
    /\ Len(client_list') = Len(client_list)
    /\ \A i \in DOMAIN client_list :
          /\ client_list'[i].room = client_list[i].room
          /\ \A j \in DOMAIN client_list[i].clients :
                (client_list[i].room # r \/ client_list[i].clients[j].id # id)
                => /\ j \in DOMAIN client_list'[i].clients
                   /\ client_list'[i].clients[j] = client_list[i].clients[j]

\* the broadcast to room r at position pos turns to a session whose peer is
\* gone: it tries the write, as the failure it notes shows
TriesLost(r, pos, failed, new) ==
    LET clients == Members(client_list', r)
        q == FirstReceiving(clients, pos)
    IN  (q # 0 /\ lost[clients[q].writer])
        => new.failed_clients = Append(failed, clients[q].writer)

\* C28: a step of a broadcast leaves the registry as it is (the step in which
\* a handler decodes a SEND or a JOIN changes the sender's or joiner's own
\* entry, before the broadcast, and nothing else): a session whose write
\* failed stays where it is with its status and its writer, and every
\* broadcast that comes to it while it is CONNECTED or ACTIVE tries the write
\* again, whatever broadcasts failed on it before
C28_BroadcastLeavesRegistry ==
    [][/\ \A c \in Conns :
            /\ (Decoded(c) /\ conn'[c].bc_msg # NoFrame)
               => /\ SameButFor(conn'[c].chat_room, conn'[c].client_id)
                  /\ conn'[c].bc_room \in RoomNames(client_list')
                        => TriesLost(conn'[c].bc_room, 1, <<>>, conn'[c])
            /\ (conn[c].pc = "bcast" /\ conn'[c] # conn[c])
               => /\ client_list' = client_list
                  /\ SameSize(conn[c].bc_room, conn[c].bc_size)
                        => TriesLost(conn[c].bc_room, conn[c].bc_pos,
                                     conn[c].failed_clients, conn'[c])
       /\ ApiCalled("send")
            => /\ client_list' = client_list
               /\ api'.chat_room \in RoomNames(client_list)
                     => TriesLost(api'.chat_room, 1, <<>>, api')
       /\ (api.pc = "bcast" /\ api' # api)
            => /\ client_list' = client_list
               /\ SameSize(api.chat_room, api.bc_size)
                     => TriesLost(api.chat_room, api.bc_pos, api.failed_clients, api')
      ]_vars

\* two broadcasts, of the facade and of a join, have each failed on the
\* first session, which is in the room as it was
C28_Witness ==
    /\ lost[1]
    /\ api.op = "send" /\ api.pc = "done" /\ api.failed_clients = <<1>>
    /\ conn[3].pc = "done" /\ conn[3].message_name = w_JOIN
    /\ conn[3].failed_clients = <<1>>
    /\ Members(client_list, room_r)[1] = Entry(id_a, 1, "CONNECTED")

\* C29: a broadcast that was suspended in a write goes on by the registry as
\* it is when it resumes, whatever other connections and the facade did to
\* the room meanwhile (a member added, a status changed): it writes to the
\* next session not yet visited that is CONNECTED or ACTIVE, and returns
\* normally when there is none left
C29_BroadcastSeesChanges ==
    [][/\ \A c \in Conns :
            (conn[c].pc = "bcast" /\ conn'[c] # conn[c])
            => GoesOn(conn[c].bc_room, conn[c].bc_pos, conn[c].failed_clients, conn'[c])
       /\ (api.pc = "bcast" /\ api' # api)
            => GoesOn(api.chat_room, api.bc_pos, api.failed_clients, api')
      ]_vars

\* the handler of c has dispatched a NEW
DispatchedNew(cn) ==
    /\ cn.pc \in {"done", "err_drain"}
    /\ cn.message_name = w_NEW
    /\ cn.outcome \notin Undispatched

\* C30: of the connections that issue NEW for one room, in any interleaving
\* of their handlers, exactly one creates the room: a NEW for a room that is
\* not in the registry creates it with the creator as its only member, a NEW
\* for a room that is in the registry fails and leaves the registry as it
\* is, also while its connection is closed
C30_OneNewCreatesTheRoom ==
    [][/\ \A c \in Conns :
            /\ (/\ Decoded(c) /\ conn'[c].message_name = w_NEW
                /\ conn'[c].chat_room \in RoomNames(client_list))
               => /\ conn'[c].outcome \in {"room_exists", "creation_failed"}
                  /\ client_list' = client_list
            /\ (/\ Decoded(c) /\ conn'[c].message_name = w_NEW
                /\ conn'[c].chat_room \notin RoomNames(client_list))
               => /\ conn'[c].outcome = "created"
                  /\ client_list' = Append(client_list,
                        [room |-> conn'[c].chat_room,
                         clients |-> <<[id |-> conn'[c].client_id, session |-> TRUE,
                                        writer |-> c, status |-> "NEW"]>>])
            /\ (/\ conn[c].pc = "err_drain" /\ conn[c].message_name = w_NEW
                /\ conn'[c] # conn[c])
               => client_list' = client_list
       /\ \A c \in Conns :
            DispatchedNew(conn'[c])
            => Cardinality({d \in Conns : /\ DispatchedNew(conn'[d])
                                          /\ conn'[d].chat_room = conn'[c].chat_room
                                          /\ conn'[d].outcome = "created"}) = 1
      ]_vars

\* two connections have issued NEW for one room under two ids: one created
\* it, the other failed and was closed, and the room has the creator alone
C30_Witness ==
    \E c, d \in Conns :
        /\ conn[c].pc = "done" /\ conn[c].message_name = w_NEW
        /\ conn[c].outcome = "created"
        /\ conn[d].pc = "done" /\ conn[d].message_name = w_NEW
        /\ conn[d].outcome = "creation_failed" /\ closed[d]
        /\ conn[d].chat_room = conn[c].chat_room
        /\ conn[d].client_id # conn[c].client_id
        /\ Members(client_list, conn[c].chat_room) = <<Entry(conn[c].client_id, c, "NEW")>>

\* the outcomes of a connection that was rejected or whose command failed
Failures ==
    Undispatched \cup
    {"not_registered", "failed", "pause_failed", "creation_failed", "room_exists",
     "room_not_found", "join_room_not_found", "client_error", "list_failed"}

\* C31: a step in which the handler of a connection rejects it or fails
\* (the client went away, the verb is unknown, the capacity is exceeded, the
\* room exists already), and the step in which the connection is closed after
\* the error, leave the registry as it was: no room gains or loses an entry
\* and no session changes its status or its writer
C31_FailureLeavesRegistry ==
    [][\A c \in Conns :
        (conn'[c] # conn[c] /\ conn'[c].outcome \in Failures)
        => client_list' = client_list
      ]_vars

\* a room with its creator's session, NEW, after another NEW for the room
\* has failed and its connection was closed, and a third connection was
\* turned away before its dispatch
C31_Witness ==
    \E c, d, e \in Conns :
        /\ conn[c].pc = "done" /\ conn[c].outcome = "created"
        /\ conn[d].pc = "done" /\ conn[d].outcome = "creation_failed" /\ closed[d]
        /\ conn[e].pc = "done" /\ conn[e].outcome \in Undispatched
        /\ client_list = <<[room |-> conn[c].chat_room,
                            clients |-> <<Entry(conn[c].client_id, c, "NEW")>>]>>

\* C33: a handler decodes one command: once it has an outcome it reads no
\* further verb or header from its connection, the command it decoded stays
\* the one it has, and once it has returned it takes no further step
C33_OneCommandPerConnection ==
    [][\A c \in Conns :
        /\ conn[c].outcome # ""
           => /\ conn'[c].pc \notin {"verb", "header"}
              /\ conn'[c].stream = conn[c].stream
              /\ conn'[c].message_name = conn[c].message_name
              /\ conn'[c].outcome = conn[c].outcome
        /\ conn[c].pc = "done" => conn'[c] = conn[c]
      ]_vars

\* a handler has returned after its command, here a SEND whose broadcast
\* reached the creator of the room, and two other handlers have returned too
C33_Witness ==
    \E c, d, e \in Conns :
        /\ Cardinality({c, d, e}) = 3
        /\ conn[c].pc = "done" /\ conn[c].outcome = "sent"
        /\ conn[d].pc = "done" /\ conn[d].outcome = "created"
        /\ conn[e].pc = "done" /\ conn[e].outcome # ""
        /\ \E i \in DOMAIN out[d] : out[d][i].fmt = "MSG {a}"

\* C34: a command whose header has no colon, or more than one, is not turned
\* away for its header: it is dispatched with the room "main" and the client
\* id "client", and its outcome is that of the command so dispatched
C34_MalformedHeaderUsesDefaults ==
    [][\A c \in Conns :
        (/\ Decoded(c)
         /\ HeaderOf(conn'[c].stream).ok
         /\ Len(HeaderParts(HeaderOf(conn'[c].stream).data)) # 2)
        => /\ conn'[c].chat_room = <<"m","a","i","n">>
           /\ conn'[c].client_id = <<"c","l","i","e","n","t">>
           /\ conn'[c].outcome \notin Undispatched
           /\ conn'[c].outcome =
                 Dispatch(Server, c, conn[c].message_name, <<"m","a","i","n">>,
                          <<"c","l","i","e","n","t">>,
                          BodyOf(conn'[c].stream)).outcome
      ]_vars

\* a LIST whose header has two colons has returned its listing, and a NEW
\* whose header has none was dispatched and failed as a NEW for "main" does
C34_Witness ==
    \E c, d \in Conns :
        /\ conn[c].pc = "done" /\ conn[c].message_name = w_LIST
        /\ Len(HeaderParts(HeaderOf(conn[c].stream).data)) = 3
        /\ conn[c].outcome = "listed" /\ ~closed[c]
        /\ conn[d].pc = "done" /\ conn[d].message_name = w_NEW
        /\ Len(HeaderParts(HeaderOf(conn[d].stream).data)) = 1
        /\ conn[d].outcome = "creation_failed"

\* the outcomes of a command whose dispatch raised an exception into the
\* handler
DispatchRaised == {"failed", "pause_failed", "creation_failed", "list_failed"}

\* C32: when the dispatch of a command raises an exception, the handler
\* catches it, and when it has returned an error frame has been written to
\* the connection and the connection is closed; the listener still serves.
\* The LIST case answers the exception of list_chatrooms with
\* send_error_to_writer, which writes the frame and closes nothing.
C32_DispatchExceptionClosesConnection ==
    \A c \in Conns :
        (conn[c].pc = "done" /\ conn[c].outcome \in DispatchRaised)
        => /\ Len(out[c]) > 0
           /\ closed[c]
           /\ listener.phase = "serving"

\* the five kinds of listing, and the calls that lack what their kind needs
SupportedKinds ==
    {s_ALL, s_CHAT_ROOMS, s_CHAT_ROOM_AND_CLIENTS, s_CLIENT_CHAT_ROOMS,
     s_CLIENTS_FOR_CHAT_ROOM}
Unsupported(list_type, client_id, chat_room) ==
    \/ list_type \notin SupportedKinds
    \/ list_type = s_CLIENT_CHAT_ROOMS /\ client_id = None
    \/ list_type = s_CLIENTS_FOR_CHAT_ROOM /\ chat_room = None

\* the call returned a value that says it is an error
ExplicitError(result) == result.exc = "none" /\ result.error # ""

\* C35: a listing asked for with a kind outside the five, or with
\* CLIENT_CHAT_ROOMS and no client id, or with CLIENTS_FOR_CHAT_ROOM and no
\* room, returns an explicit error value, from list_chatrooms and
\* list_chatrooms_as_dict called directly and from the LIST command (which
\* passes no room).  list_chatrooms returns the bare heading "Chat Room List"
\* for a kind it does not know.
C35_UnsupportedListingIsError ==
    /\ (/\ api.op \in {"list_chatrooms", "list_chatrooms_as_dict"}
        /\ Unsupported(api.message_data, api.client_id, api.chat_room))
       => ExplicitError(api.ret)
    /\ \A c \in Conns :
          (/\ conn[c].pc = "done"
           /\ conn[c].message_name = w_LIST
           /\ conn[c].outcome \in {"listed", "list_failed"}
           /\ Unsupported(conn[c].message_data, conn[c].client_id, None))
          => ExplicitError(conn[c].ret)

\* C36: no step removes a room: the rooms of the registry before a step are
\* rooms after it, whatever the clients send and whatever the facade is
\* asked to pause, close or send
C36_RoomsNeverShrink ==
    [][RoomNames(client_list) \subseteq RoomNames(client_list')]_vars

\* close_client was called with the name of a room that exists, and the room
\* is still there
C36_Witness ==
    /\ api.op = "close" /\ api.pc = "done"
    /\ api.client_id = room_r
    /\ room_r \in RoomNames(client_list)
    /\ \E c \in Conns : conn[c].pc = "done" /\ conn[c].outcome = "sent"

\* the connections whose handler has started and has not finished
Open == {d \in Conns : conn[d].pc \notin {"idle", "done"}}

\* C37: a connection is turned away for capacity only when more than
\* max_clients connections are open, the one that is turned away included;
\* connections whose handler has finished are not counted.  The handlers that
\* end without an error never decrement client_count, so it counts them for
\* ever.
C37_CapacityCountsOpenConnections ==
    [][\A c \in Conns :
        (conn[c].pc = "verb" /\ conn'[c].outcome = "capacity")
        => Cardinality(Open) > max_clients
      ]_vars

\* C38: client_count is never negative.  A connection that is turned away
\* before its dispatch is counted once and taken off twice, by
\* send_error_and_close and by client_callback.
C38_ClientCountNotNegative == client_count >= 0

\* C39: every entry of every room is a client session, a dict with a writer
\* and a status.  close_client and send_error_and_close look their client id
\* up among the rooms and store a string under the key "status" of the room
\* of that name.
C39_EntriesAreSessions ==
    \A i \in DOMAIN client_list :
        \A j \in DOMAIN client_list[i].clients :
            /\ client_list[i].clients[j].session
            /\ client_list[i].clients[j].id # s_status

\* C40: the status of every session is one of STATUS_LIST.  pause_client
\* stores "PAUSED", which the list does not have (it has "SUSPENDED").
C40_StatusInStatusList ==
    \A i \in DOMAIN client_list :
        \A j \in DOMAIN client_list[i].clients :
            client_list[i].clients[j].session
            => client_list[i].clients[j].status \in STATUS_LIST
====
